---- MODULE Spec2Model ----
(***************************************************************************)
(* Model of the beacon-sdk peer-to-peer communication layer:               *)
(*   - P2PCommunicationClient: relay selection, pairing descriptors, start *)
(*   - MatrixClientStore: hydration, update, persistence, listeners        *)
(***************************************************************************)
EXTENDS Integers, Sequences, FiniteSets, TLC

VARIABLES
    \* ---- P2PCommunicationClient --------------------------------------
    hashOf,            \* getHexHash on the strings "<server><nonce>" (utils/crypto)
    keyHash,           \* per instance: getHexHash(this.keyPair.publicKey)
    matrixNodes,       \* per instance: the server list given to the constructor
    relayServers,      \* per instance: this.KNOWN_RELAY_SERVERS
    client,            \* per instance: this.client (NoClient or the chat client)
    lastCall,          \* the last getRelayServer call and what it returned
    lastInfo,          \* the last pairing descriptor handed out
    chatOps,           \* per instance: operations performed on the chat client
    standbyRoom,       \* per instance: storage[MATRIX_ROOM_STANDBY]
    p2pStorageOps,     \* per instance: number of storage operations performed
    \* ---- MatrixClientStore -------------------------------------------
    state,             \* this.state
    ready,             \* waitReadyPromise: "pending", "resolved" or "rejected"
    waiters,           \* update calls suspended at `await this.waitReady()`, in call order
    listeners,         \* this.onStateChangedListeners: slot -> listener
    preserved,         \* storage[MATRIX_PRESERVED_STATE]
    written,           \* this.state at the last storage.set the store made
    hydrated,          \* what initFromStorage read and parsed
    nCalls,            \* number of update calls issued so far
    applied,           \* the update calls whose body has run, in that order
    last,              \* the last run of an update body: old state and notifications
    stores,            \* number of stores created over the storage so far
    nSubscriptions,    \* number of onStateChanged calls made so far
    \* ---- P2PCommunicationClient: start, routing, sending ---------------
    startPc,           \* per instance: where start() is ("idle" before it is called)
    peerRoomIds,       \* per instance: storage[MATRIX_PEER_ROOM_IDS], recipient -> room id
    joinedRooms,           \* per instance: the joined rooms of the chat client, in order
    nextRoom,          \* per instance: number of the next room the chat server creates
    opCalls,            \* per instance: the sendMessage / sendPairingResponse / ... calls
    standbyTasks,      \* per instance: the running prepareStandbyRoom calls
    lastOp,            \* the last operation invoked and whether it found a client
    \* ---- P2PCommunicationClient: listening -----------------------------
    messageListeners,  \* per instance: the message listeners subscribed on the chat client
    activeListeners,   \* per instance: this.activeListeners, sender -> listener
    initialListener,   \* per instance: whether this.initialListener is set
    initialEvent,      \* per instance: this.initialEvent
    delivered,         \* per instance: the calls made to message callbacks, in order
    listening,         \* per instance: the listenForEncryptedMessage calls past their check
    arrived,           \* per instance: the message events received, in order
    now                \* new Date().getTime()

p2pVars == <<hashOf, keyHash, matrixNodes, relayServers, client, lastCall, lastInfo, chatOps,
             standbyRoom, p2pStorageOps>>

storeVars == <<state, ready, waiters, listeners, preserved, written, hydrated, nCalls,
               applied, last, stores, nSubscriptions>>

relayVars == <<hashOf, keyHash, matrixNodes, relayServers, lastCall, lastInfo>>

routeVars == <<startPc, peerRoomIds, joinedRooms, nextRoom, opCalls, standbyTasks, lastOp>>

listenVars == <<messageListeners, activeListeners, initialListener, initialEvent, delivered,
                listening, arrived, now>>

vars == <<p2pVars, routeVars, listenVars, storeVars>>

(***************************************************************************)
(* Bounds of the model                                                     *)
(***************************************************************************)
MaxServers == 2        \* longest configured server list
MaxUpdates == 2        \* update calls issued on the stores
MaxStores == 2         \* stores created over one storage
MaxSubscriptions == 1  \* onStateChanged calls
MaxCalls == 2          \* operations invoked on the communication client
MaxEvents == 2         \* message events received
MaxTicks == 1          \* five-minute spans that pass

(***************************************************************************)
(* P2PCommunicationClient: configuration                                   *)
(***************************************************************************)
Instances == {1, 2}

\* the built-in server list
KNOWN_RELAY_SERVERS == <<"matrix.papers.tech">>

\* the servers a configured list is drawn from
Servers == {"matrix.papers.tech", "matrix-dev.papers.tech"}
Nonces == {"", "0"}
\* hashes, as numbers: enough values for the hashed strings to have different
\* hashes and for two servers to lie at the same distance on either side of a hash
HashVals == 0..3

\* the hash functions considered: different strings have different hashes
HashFunctions ==
    LET strings == {s \o n : s \in Servers, n \in Nonces}
    IN  {f \in [strings -> HashVals] : \A a, b \in strings : a # b => f[a] # f[b]}

\* an optional argument: <<>> when omitted, <<v>> when given
Omitted == <<>>
Given(v) == <<v>>

ServerLists == UNION {[1..n -> Servers] : n \in 0..MaxServers}

NoClient == [baseUrl |-> "none"]
NoCall == [instance |-> 0]
NoInfo == [instance |-> 0]

\* constructor: an empty configured list falls back to the built-in one
Constructor(nodes) ==
    IF Len(nodes) > 0 THEN nodes ELSE KNOWN_RELAY_SERVERS

\* getHexHash applied to the string `server + nonce`
getHexHash(str) == hashOf[str]

\* getHexHash(this.keyPair.publicKey)
getHexHash_publicKey(c) == keyHash[c]

\* CommunicationClient.getPublicKeyHash
getPublicKeyHash(c) == keyHash[c]

Abs(x) == IF x < 0 THEN 0 - x ELSE x

\* |0x<first> - 0x<second>|
getAbsoluteBigIntDifference(firstHash, secondHash) == Abs(firstHash - secondHash)

\* a reducer that keeps prev on equality as well
RelayReducerKeepsPrevOnTie(hash, nonce, prev, curr) ==
    IF Abs(hash - hashOf[prev \o nonce]) <= Abs(hash - hashOf[curr \o nonce])
    THEN prev ELSE curr

\* the reducer of getRelayServer: keeps prev only when it is strictly closer
RelayReducer(hash, nonce, prev, curr) ==
    LET prevRelayServerHash == getHexHash(prev \o nonce)
        currRelayServerHash == getHexHash(curr \o nonce)
        prevBigInt == getAbsoluteBigIntDifference(hash, prevRelayServerHash)
        currBigInt == getAbsoluteBigIntDifference(hash, currRelayServerHash)
    IN  IF prevBigInt < currBigInt THEN prev ELSE curr

RECURSIVE RelayReduce(_, _, _, _, _)
RelayReduce(list, i, hash, nonce, prev) ==
    IF i > Len(list) THEN prev
    ELSE RelayReduce(list, i + 1, hash, nonce, RelayReducer(hash, nonce, prev, list[i]))

\* a selection that measures from the instance's own key, whatever hash is passed
getRelayServerFromOwnKey(c, publicKeyHash, nonce) ==
    RelayReduce(relayServers[c], 1, keyHash[c], nonce, relayServers[c][1])

\* getRelayServer(publicKeyHash?, nonce = '')
getRelayServer(c, publicKeyHash, nonce) ==
    LET hash == IF publicKeyHash = Omitted THEN getHexHash_publicKey(c) ELSE publicKeyHash[1]
    IN  RelayReduce(relayServers[c], 1, hash, nonce, relayServers[c][1])

\* a call of getRelayServer from outside, its result remembered in lastCall
GetRelayServerCall(c, publicKeyHash, nonce) ==
    /\ lastCall' = [instance |-> c, publicKeyHash |-> publicKeyHash, nonce |-> nonce,
                    result |-> getRelayServer(c, publicKeyHash, nonce)]
    /\ UNCHANGED <<hashOf, keyHash, matrixNodes, relayServers, client, lastInfo, chatOps,
                   standbyRoom, p2pStorageOps>>
    /\ UNCHANGED <<routeVars, listenVars, storeVars>>

\* getPairingRequestInfo(): the descriptor's relayServer is getRelayServer()
getPairingRequestInfo(c) ==
    [instance |-> c, id |-> "guid", type |-> "p2p-pairing-request",
     publicKey |-> c, relayServer |-> getRelayServer(c, Omitted, "")]

\* getPairingResponseInfo(request): the same, with the id of the request
getPairingResponseInfo(c, request) ==
    [instance |-> c, id |-> request.id, type |-> "p2p-pairing-response",
     publicKey |-> c, relayServer |-> getRelayServer(c, Omitted, "")]

GetPairingRequestInfo(c) ==
    /\ lastInfo' = getPairingRequestInfo(c)
    /\ UNCHANGED <<hashOf, keyHash, matrixNodes, relayServers, client, lastCall, chatOps,
                   standbyRoom, p2pStorageOps>>
    /\ UNCHANGED <<routeVars, listenVars, storeVars>>

GetPairingResponseInfo(c, request) ==
    /\ lastInfo' = getPairingResponseInfo(c, request)
    /\ UNCHANGED <<hashOf, keyHash, matrixNodes, relayServers, client, lastCall, chatOps,
                   standbyRoom, p2pStorageOps>>
    /\ UNCHANGED <<routeVars, listenVars, storeVars>>

\* the role given to the constructor: instance 1 is a wallet, instance 2 a dApp
isWallet(c) == c = 1

(***************************************************************************)
(* P2PCommunicationClient: start, room routing, sending, listening         *)
(***************************************************************************)
\* f with the value at c replaced
Put(f, c, v) == [f EXCEPT ![c] = v]

\* the peers messages are sent to, and the members of a room
Recipients == {"R1", "R2"}
Me == "me"
NoRoom == "none"

\* the room a stale routing entry names
StaleRoom == "room-x"

\* the id the chat server gives to the n-th room the client creates
NewRoomId(n) == "room-" \o ToString(n)

\* an entry of the log of operations performed on the chat client: the calls
\* start() makes, the joins and the sends (the rooms created and the invitations
\* made are seen in joinedRooms)
ChatOp(op, room, arg) == [op |-> op, room |-> room, arg |-> arg]

\* a listener subscribed on the chat client for message events: the initial
\* listener of start(), the callbackFunction of the k-th listenForEncryptedMessage
\* call that got that far, or the listener of listenForChannelOpening
Listener(kind, sender, call) == [kind |-> kind, sender |-> sender, call |-> call]
InitialListener == Listener("initial", "none", 0)

\* no operation has been invoked yet
NoOp == [n |-> 0, instance |-> 0]

\* an operation finds this.client undefined and throws clientNotReadyError
NotReady(c, op) ==
    lastOp' = [n |-> lastOp.n + 1, instance |-> c, op |-> op, during |-> startPc[c],
               result |-> "not-ready"]

\* an operation finds this.client set and goes on
Accepted(c, op) ==
    lastOp' = [n |-> lastOp.n + 1, instance |-> c, op |-> op, during |-> startPc[c],
               result |-> "accepted"]

\* prepareStandbyRoom() is called: a dApp returns at once; a wallet goes on to
\* `await this.storage.get(MATRIX_ROOM_STANDBY)`, as a task of its own
prepareStandbyRoom(c, tasks) ==
    IF ~isWallet(c) THEN tasks ELSE Append(tasks, [pc |-> "get", roomId |-> NoRoom])

\* the tasks with task t at pc
TaskAt(tasks, t, pc) == [tasks EXCEPT ![t].pc = pc]

\* start() is called and suspends at `await sodium.ready`
Start(c) ==
    /\ startPc[c] = "idle"
    /\ startPc' = Put(startPc, c, "sodium")
    /\ UNCHANGED <<relayVars, client, chatOps, standbyRoom, p2pStorageOps>>
    /\ UNCHANGED <<peerRoomIds, joinedRooms, nextRoom, opCalls, standbyTasks, lastOp>>
    /\ UNCHANGED <<listenVars, storeVars>>

\* a start() that logs in before it subscribes its listeners
startChatCallsLoginFirst ==
    <<ChatOp("start", NoRoom, "login"),
      ChatOp("subscribe", NoRoom, "message"),
      ChatOp("subscribe", NoRoom, "invite")>>

\* the calls start() makes on the chat client it has created, up to client.start
startChatCalls ==
    <<ChatOp("subscribe", NoRoom, "message"),
      ChatOp("subscribe", NoRoom, "invite"),
      ChatOp("start", NoRoom, "login")>>

\* start(), from sodium.ready to the call of client.start: the chat client is
\* created against the relay chosen with nonce '0' and the initial-message listener
\* and the invite listener are subscribed
StartCreateClient(c) ==
    /\ startPc[c] = "sodium"
    /\ LET relay == getRelayServer(c, Given(getPublicKeyHash(c)), "0")
       IN  client' = Put(client, c, [baseUrl |-> "https://" \o relay, relay |-> relay,
                                     loggedIn |-> FALSE])
    /\ initialListener' = Put(initialListener, c, TRUE)
    /\ messageListeners' = Put(messageListeners, c, Append(messageListeners[c], InitialListener))
    /\ chatOps' = Put(chatOps, c, chatOps[c] \o startChatCalls)
    /\ startPc' = Put(startPc, c, "login")
    /\ UNCHANGED <<relayVars, standbyRoom, p2pStorageOps>>
    /\ UNCHANGED <<peerRoomIds, joinedRooms, nextRoom, opCalls, standbyTasks, lastOp>>
    /\ UNCHANGED <<activeListeners, initialEvent, delivered, listening, arrived, now>>
    /\ UNCHANGED storeVars

\* a handler that lets the failure through: start() rejects
catchRethrowing(next, ok) == IF ok THEN next ELSE "rejected"

\* `.catch((error) => logger.log(error))`: where start() goes on once the promise
\* has settled, fulfilled (ok) or rejected
catchLogged(next, ok) == next

\* client.start settles (a failure is logged only); start() reads the invited
\* rooms and calls client.joinRooms
StartLogin(c, loginOk) ==
    /\ startPc[c] = "login"
    /\ client' = Put(client, c, [client[c] EXCEPT !.loggedIn = loginOk])
    /\ LET next == catchLogged("joining", loginOk)
       IN  /\ startPc' = Put(startPc, c, next)
           /\ chatOps' = Put(chatOps, c,
                  IF next = "joining"
                  THEN Append(chatOps[c], ChatOp("joinRooms", NoRoom, "invited"))
                  ELSE chatOps[c])
    /\ UNCHANGED <<relayVars, standbyRoom, p2pStorageOps>>
    /\ UNCHANGED <<peerRoomIds, joinedRooms, nextRoom, opCalls, standbyTasks, lastOp>>
    /\ UNCHANGED <<listenVars, storeVars>>

\* client.joinRooms settles (a failure is logged only); start() calls
\* prepareStandbyRoom without awaiting it, and resolves
StartJoinRooms(c, joinOk) ==
    /\ startPc[c] = "joining"
    /\ LET next == catchLogged("done", joinOk)
       IN  /\ startPc' = Put(startPc, c, next)
           /\ standbyTasks' = Put(standbyTasks, c,
                  IF next = "done" THEN prepareStandbyRoom(c, standbyTasks[c])
                  ELSE standbyTasks[c])
    /\ UNCHANGED <<relayVars, client, chatOps, standbyRoom, p2pStorageOps>>
    /\ UNCHANGED <<peerRoomIds, joinedRooms, nextRoom, opCalls, lastOp>>
    /\ UNCHANGED <<listenVars, storeVars>>

\* a new room on the chat client: the client is its only member
NewRoom(id, invited) == [id |-> id, members |-> {Me}, invited |-> invited]

\* prepareStandbyRoom, at `await this.storage.get`: it returns when a standby room
\* is stored, and goes on to create one when none is. A task ends "returned",
\* "failed" (the creation was rejected) or "stored"
PrepareStandbyRoomGet(c, t) ==
    /\ t \in 1..Len(standbyTasks[c])
    /\ standbyTasks[c][t].pc = "get"
    /\ standbyTasks' = Put(standbyTasks, c,
          TaskAt(standbyTasks[c], t, IF standbyRoom[c] # NoRoom THEN "returned" ELSE "create"))
    /\ p2pStorageOps' = Put(p2pStorageOps, c, p2pStorageOps[c] + 1)
    /\ UNCHANGED <<relayVars, client, chatOps, standbyRoom>>
    /\ UNCHANGED <<startPc, peerRoomIds, joinedRooms, nextRoom, opCalls, lastOp>>
    /\ UNCHANGED <<listenVars, storeVars>>

\* prepareStandbyRoom, at `await this.client.createTrustedPrivateRoom()`: the room
\* is created, or the call fails and prepareStandbyRoom rejects (its caller logs it)
PrepareStandbyRoomCreate(c, t, createOk) ==
    /\ t \in 1..Len(standbyTasks[c])
    /\ standbyTasks[c][t].pc = "create"
    /\ IF createOk
       THEN /\ standbyTasks' = Put(standbyTasks, c,
                   [standbyTasks[c] EXCEPT ![t] = [pc |-> "set", roomId |-> NewRoomId(nextRoom[c])]])
            /\ joinedRooms' = Put(joinedRooms, c, Append(joinedRooms[c], NewRoom(NewRoomId(nextRoom[c]), {})))
            /\ nextRoom' = Put(nextRoom, c, nextRoom[c] + 1)
       ELSE /\ standbyTasks' = Put(standbyTasks, c, TaskAt(standbyTasks[c], t, "failed"))
            /\ UNCHANGED <<joinedRooms, nextRoom>>
    /\ UNCHANGED <<relayVars, client, chatOps, standbyRoom, p2pStorageOps>>
    /\ UNCHANGED <<startPc, peerRoomIds, opCalls, lastOp>>
    /\ UNCHANGED <<listenVars, storeVars>>

\* prepareStandbyRoom, at `await this.storage.set(MATRIX_ROOM_STANDBY, roomId)`
PrepareStandbyRoomSet(c, t) ==
    /\ t \in 1..Len(standbyTasks[c])
    /\ standbyTasks[c][t].pc = "set"
    /\ standbyRoom' = Put(standbyRoom, c, standbyTasks[c][t].roomId)
    /\ standbyTasks' = Put(standbyTasks, c, TaskAt(standbyTasks[c], t, "stored"))
    /\ p2pStorageOps' = Put(p2pStorageOps, c, p2pStorageOps[c] + 1)
    /\ UNCHANGED <<relayVars, client, chatOps>>
    /\ UNCHANGED <<startPc, peerRoomIds, joinedRooms, nextRoom, opCalls, lastOp>>
    /\ UNCHANGED <<listenVars, storeVars>>

(***************************************************************************)
(* Room routing: getRelevantRoom, getRelevantJoinedRoom,                   *)
(* getAndRemoveStandbyRoom, as run by sendMessage and sendPairingResponse  *)
(***************************************************************************)
\* storage[MATRIX_PEER_ROOM_IDS] with no binding
NoBindings == [r \in Recipients |-> NoRoom]

\* a call of sendMessage or sendPairingResponse that has passed the client check
\* and is about to run getRelevantRoom; `after` names the earlier calls whose
\* promise had resolved when this one was made, `cached` whether the first
\* resolution found the recipient bound, `polls` the getRoomById checks made by
\* waitForJoin and `waited` the sum of the delays of the timers set, in ms
NewCall(c, kind, recipient) ==
    [kind |-> kind, recipient |-> recipient, pc |-> "getRelevantRoom", attempt |-> 1, cached |-> FALSE,
     roomIds |-> NoBindings, standby |-> NoRoom, roomId |-> NoRoom, retry |-> 0,
     polls |-> 0, waited |-> 0,
     promise |-> "pending", outcomes |-> <<>>, returned |-> <<>>,
     after |-> {j \in 1..Len(opCalls[c]) : opCalls[c][j].promise = "resolved"}]

\* the call with getRelevantRoom returning roomId to its caller
Returned(call, roomId) ==
    [call EXCEPT !.roomId = roomId,
                 !.returned = Append(@, roomId),
                 !.pc = IF call.kind = "sendPairingResponse" THEN "waitForJoin"
                        ELSE IF call.attempt = 1 THEN "sendTextMessage"
                        ELSE "sendAgain"]

\* the call i of instance c is at pc
At(c, i, pc) == i \in 1..Len(opCalls[c]) /\ opCalls[c][i].pc = pc

\* the calls of instance c with call i replaced
PutCall(c, i, call) == Put(opCalls, c, [opCalls[c] EXCEPT ![i] = call])

\* getRelevantRoom, at `await this.storage.get(MATRIX_PEER_ROOM_IDS)`: the stored
\* bindings are read into roomIds; a bound recipient's room is returned
GetRelevantRoom(c, i) ==
    /\ At(c, i, "getRelevantRoom")
    /\ LET roomId == peerRoomIds[c][opCalls[c][i].recipient]
           call == [opCalls[c][i] EXCEPT !.roomIds = peerRoomIds[c],
                                         !.cached = IF @ THEN @ ELSE
                                                    opCalls[c][i].attempt = 1 /\ roomId # NoRoom]
       IN  opCalls' = PutCall(c, i, IF roomId # NoRoom THEN Returned(call, roomId)
                                  ELSE [call EXCEPT !.pc = "getRelevantJoinedRoom"])
    /\ p2pStorageOps' = Put(p2pStorageOps, c, p2pStorageOps[c] + 1)
    /\ UNCHANGED <<relayVars, client, chatOps, standbyRoom>>
    /\ UNCHANGED <<startPc, peerRoomIds, joinedRooms, nextRoom, standbyTasks, lastOp>>
    /\ UNCHANGED <<listenVars, storeVars>>

\* the joined rooms that have the recipient among their members, in order
RelevantRooms(c, recipient) ==
    SelectSeq(joinedRooms[c], LAMBDA room : recipient \in room.members)

\* a scan of the joined rooms that finds nothing to reuse
getRelevantJoinedRoomCreatingAlways(c, call) ==
    IF isWallet(c) THEN [call EXCEPT !.pc = "getAndRemoveStandbyRoom"]
    ELSE [call EXCEPT !.pc = "createTrustedPrivateRoom"]

\* getRelevantJoinedRoom, at `await this.client.joinedRooms`: the first joined room
\* with the recipient as a member is taken; without one, a wallet goes on to its
\* standby room and a dApp (for which getAndRemoveStandbyRoom returns undefined at
\* once) to the creation of a room
getRelevantJoinedRoom(c, call) ==
    LET relevantRooms == RelevantRooms(c, call.recipient)
    IN  IF Len(relevantRooms) # 0
        THEN [call EXCEPT !.roomId = relevantRooms[1].id, !.pc = "setRoomIds"]
        ELSE IF isWallet(c) THEN [call EXCEPT !.pc = "getAndRemoveStandbyRoom"]
        ELSE [call EXCEPT !.pc = "createTrustedPrivateRoom"]

GetRelevantJoinedRoom(c, i) ==
    /\ At(c, i, "getRelevantJoinedRoom")
    /\ opCalls' = PutCall(c, i, getRelevantJoinedRoom(c, opCalls[c][i]))
    /\ UNCHANGED <<relayVars, client, chatOps, standbyRoom, p2pStorageOps>>
    /\ UNCHANGED <<startPc, peerRoomIds, joinedRooms, nextRoom, standbyTasks, lastOp>>
    /\ UNCHANGED <<listenVars, storeVars>>

\* getAndRemoveStandbyRoom, at `await this.storage.get(MATRIX_ROOM_STANDBY)`
GetStandbyRoom(c, i) ==
    /\ At(c, i, "getAndRemoveStandbyRoom")
    /\ opCalls' = PutCall(c, i,
          IF standbyRoom[c] = NoRoom
          THEN [opCalls[c][i] EXCEPT !.pc = "createTrustedPrivateRoom"]
          ELSE [opCalls[c][i] EXCEPT !.standby = standbyRoom[c], !.pc = "removeStandbyRoom"])
    /\ p2pStorageOps' = Put(p2pStorageOps, c, p2pStorageOps[c] + 1)
    /\ UNCHANGED <<relayVars, client, chatOps, standbyRoom>>
    /\ UNCHANGED <<startPc, peerRoomIds, joinedRooms, nextRoom, standbyTasks, lastOp>>
    /\ UNCHANGED <<listenVars, storeVars>>

\* a removal that schedules no replacement
tasksAfterRemovalWithoutReplacement(c) == standbyTasks[c]

\* the tasks after getAndRemoveStandbyRoom has called prepareStandbyRoom
tasksAfterRemoval(c) == prepareStandbyRoom(c, standbyTasks[c])

\* getAndRemoveStandbyRoom, at `await this.storage.delete(MATRIX_ROOM_STANDBY)`: the
\* key is deleted, prepareStandbyRoom is called without being awaited, and the
\* room that was read is returned
RemoveStandbyRoom(c, i) ==
    /\ At(c, i, "removeStandbyRoom")
    /\ standbyRoom' = Put(standbyRoom, c, NoRoom)
    /\ standbyTasks' = Put(standbyTasks, c, tasksAfterRemoval(c))
    /\ opCalls' = PutCall(c, i, [opCalls[c][i] EXCEPT !.pc = "inviteToRooms"])
    /\ p2pStorageOps' = Put(p2pStorageOps, c, p2pStorageOps[c] + 1)
    /\ UNCHANGED <<relayVars, client, chatOps>>
    /\ UNCHANGED <<startPc, peerRoomIds, joinedRooms, nextRoom, lastOp>>
    /\ UNCHANGED <<listenVars, storeVars>>

\* the rooms with the recipient invited to the room of that id
Invited(roomList, roomId, recipient) ==
    [j \in 1..Len(roomList) |->
        IF roomList[j].id = roomId
        THEN [roomList[j] EXCEPT !.invited = @ \cup {recipient}] ELSE roomList[j]]

\* getRelevantJoinedRoom, at `await this.client.inviteToRooms(recipient, standbyRoom)`
InviteToRooms(c, i) ==
    /\ At(c, i, "inviteToRooms")
    /\ LET call == opCalls[c][i]
       IN  /\ joinedRooms' = Put(joinedRooms, c, Invited(joinedRooms[c], call.standby, call.recipient))
           /\ opCalls' = PutCall(c, i, [call EXCEPT !.roomId = call.standby, !.pc = "setRoomIds"])
    /\ UNCHANGED <<relayVars, client, chatOps, standbyRoom, p2pStorageOps>>
    /\ UNCHANGED <<startPc, peerRoomIds, nextRoom, standbyTasks, lastOp>>
    /\ UNCHANGED <<listenVars, storeVars>>

\* getRelevantJoinedRoom, at `await this.client.createTrustedPrivateRoom(recipient)`
CreateTrustedPrivateRoom(c, i) ==
    /\ At(c, i, "createTrustedPrivateRoom")
    /\ LET call == opCalls[c][i]
           roomId == NewRoomId(nextRoom[c])
       IN  /\ joinedRooms' = Put(joinedRooms, c, Append(joinedRooms[c], NewRoom(roomId, {call.recipient})))
           /\ opCalls' = PutCall(c, i, [call EXCEPT !.roomId = roomId, !.pc = "setRoomIds"])
    /\ nextRoom' = Put(nextRoom, c, nextRoom[c] + 1)
    /\ UNCHANGED <<relayVars, client, chatOps, standbyRoom, p2pStorageOps>>
    /\ UNCHANGED <<startPc, peerRoomIds, standbyTasks, lastOp>>
    /\ UNCHANGED <<listenVars, storeVars>>

\* getRelevantRoom, at `await this.storage.set(MATRIX_PEER_ROOM_IDS, roomIds)`: the
\* bindings that were read, with the recipient bound to the room, are stored
SetRoomIds(c, i) ==
    /\ At(c, i, "setRoomIds")
    /\ LET call == opCalls[c][i]
       IN  /\ peerRoomIds' = Put(peerRoomIds, c,
                                 [call.roomIds EXCEPT ![call.recipient] = call.roomId])
           /\ opCalls' = PutCall(c, i, Returned(call, call.roomId))
    /\ p2pStorageOps' = Put(p2pStorageOps, c, p2pStorageOps[c] + 1)
    /\ UNCHANGED <<relayVars, client, chatOps, standbyRoom>>
    /\ UNCHANGED <<startPc, joinedRooms, nextRoom, standbyTasks, lastOp>>
    /\ UNCHANGED <<listenVars, storeVars>>

\* the recipient accepts an invitation (the chat server's doing)
PeerJoins(c, j) ==
    /\ j \in 1..Len(joinedRooms[c])
    /\ joinedRooms[c][j].invited # {}
    /\ \E r \in joinedRooms[c][j].invited :
          joinedRooms' = Put(joinedRooms, c, [joinedRooms[c] EXCEPT ![j] =
                        [@ EXCEPT !.members = @ \cup {r}, !.invited = @ \ {r}]])
    /\ UNCHANGED <<relayVars, client, chatOps, standbyRoom, p2pStorageOps>>
    /\ UNCHANGED <<startPc, peerRoomIds, nextRoom, opCalls, standbyTasks, lastOp>>
    /\ UNCHANGED <<listenVars, storeVars>>

(***************************************************************************)
(* sendMessage, sendPairingResponse, waitForJoin, tryJoinRooms             *)
(***************************************************************************)
\* how a send on the chat client may settle
SendOutcomes == {"ok", "M_FORBIDDEN", "error"}

\* the encrypted message of the i-th call
Message(i) == "message-" \o ToString(i)

\* an operation is invoked: the calls made so far are counted
Invoked == lastOp.n < MaxCalls

\* sendMessage(message, peer) is called: without a client it throws; with one it
\* derives the keys and the recipient and goes on to getRelevantRoom
SendMessage(c, recipient) ==
    /\ Invoked
    /\ IF client[c] = NoClient
       THEN NotReady(c, "sendMessage") /\ UNCHANGED opCalls
       ELSE /\ Accepted(c, "sendMessage")
            /\ opCalls' = Put(opCalls, c, Append(opCalls[c], NewCall(c, "sendMessage", recipient)))
    /\ UNCHANGED <<relayVars, client, chatOps, standbyRoom, p2pStorageOps>>
    /\ UNCHANGED <<startPc, peerRoomIds, joinedRooms, nextRoom, standbyTasks>>
    /\ UNCHANGED <<listenVars, storeVars>>

\* sendMessage, at `this.client.sendTextMessage(roomId, encryptedMessage)`: the
\* message of call i is handed to the chat client and, the send not being awaited,
\* the promise of sendMessage resolves
SendTextMessage(c, i) ==
    /\ At(c, i, "sendTextMessage")
    /\ chatOps' = Put(chatOps, c,
                      Append(chatOps[c], ChatOp("sendTextMessage", opCalls[c][i].roomId, Message(i))))
    /\ opCalls' = PutCall(c, i, [opCalls[c][i] EXCEPT !.promise = "resolved", !.pc = "sending"])
    /\ UNCHANGED <<relayVars, client, standbyRoom, p2pStorageOps>>
    /\ UNCHANGED <<startPc, peerRoomIds, joinedRooms, nextRoom, standbyTasks, lastOp>>
    /\ UNCHANGED <<listenVars, storeVars>>

\* a handler that recovers from every failure of the first send
catchFirstSendRecoveringAlways(outcome) ==
    IF outcome = "ok" THEN "done" ELSE "deleteRoomIdFromRooms"

\* the catch handler of the first send: recovery on M_FORBIDDEN, a log otherwise
catchFirstSend(outcome) ==
    IF outcome = "M_FORBIDDEN" THEN "deleteRoomIdFromRooms" ELSE "done"

\* the first send settles
SendSettles(c, i, outcome) ==
    /\ At(c, i, "sending")
    /\ opCalls' = PutCall(c, i, [opCalls[c][i] EXCEPT !.outcomes = Append(@, outcome),
                                                  !.pc = catchFirstSend(outcome)])
    /\ UNCHANGED <<relayVars, client, chatOps, standbyRoom, p2pStorageOps>>
    /\ UNCHANGED <<startPc, peerRoomIds, joinedRooms, nextRoom, standbyTasks, lastOp>>
    /\ UNCHANGED <<listenVars, storeVars>>

\* deleteRoomIdFromRooms, at `await this.storage.get(MATRIX_PEER_ROOM_IDS)`
DeleteRoomIdGet(c, i) ==
    /\ At(c, i, "deleteRoomIdFromRooms")
    /\ opCalls' = PutCall(c, i, [opCalls[c][i] EXCEPT !.roomIds = peerRoomIds[c],
                                                  !.pc = "deleteRoomIdSet"])
    /\ p2pStorageOps' = Put(p2pStorageOps, c, p2pStorageOps[c] + 1)
    /\ UNCHANGED <<relayVars, client, chatOps, standbyRoom>>
    /\ UNCHANGED <<startPc, peerRoomIds, joinedRooms, nextRoom, standbyTasks, lastOp>>
    /\ UNCHANGED <<listenVars, storeVars>>

\* the entries of roomIds whose value is not roomId
deleteRoomIdFromRooms(roomIds, roomId) ==
    [r \in Recipients |-> IF roomIds[r] = roomId THEN NoRoom ELSE roomIds[r]]

\* deleteRoomIdFromRooms, at `await this.storage.set(MATRIX_PEER_ROOM_IDS, newRoomIds)`;
\* the handler then runs getRelevantRoom again
DeleteRoomIdSet(c, i) ==
    /\ At(c, i, "deleteRoomIdSet")
    /\ peerRoomIds' = Put(peerRoomIds, c,
                          deleteRoomIdFromRooms(opCalls[c][i].roomIds, opCalls[c][i].roomId))
    /\ opCalls' = PutCall(c, i, [opCalls[c][i] EXCEPT !.attempt = 2, !.pc = "getRelevantRoom"])
    /\ p2pStorageOps' = Put(p2pStorageOps, c, p2pStorageOps[c] + 1)
    /\ UNCHANGED <<relayVars, client, chatOps, standbyRoom>>
    /\ UNCHANGED <<startPc, joinedRooms, nextRoom, standbyTasks, lastOp>>
    /\ UNCHANGED <<listenVars, storeVars>>

\* the handler, at `this.client.sendTextMessage(newRoomId, encryptedMessage)`
SendAgain(c, i) ==
    /\ At(c, i, "sendAgain")
    /\ chatOps' = Put(chatOps, c,
                      Append(chatOps[c], ChatOp("sendTextMessage", opCalls[c][i].roomId, Message(i))))
    /\ opCalls' = PutCall(c, i, [opCalls[c][i] EXCEPT !.pc = "sendingAgain"])
    /\ UNCHANGED <<relayVars, client, standbyRoom, p2pStorageOps>>
    /\ UNCHANGED <<startPc, peerRoomIds, joinedRooms, nextRoom, standbyTasks, lastOp>>
    /\ UNCHANGED <<listenVars, storeVars>>

\* the second send settles: a failure is logged
SendAgainSettles(c, i, outcome) ==
    /\ At(c, i, "sendingAgain")
    /\ opCalls' = PutCall(c, i, [opCalls[c][i] EXCEPT !.outcomes = Append(@, outcome),
                                                  !.pc = "done"])
    /\ UNCHANGED <<relayVars, client, chatOps, standbyRoom, p2pStorageOps>>
    /\ UNCHANGED <<startPc, peerRoomIds, joinedRooms, nextRoom, standbyTasks, lastOp>>
    /\ UNCHANGED <<listenVars, storeVars>>

\* sendPairingResponse(pairingRequest) is called
SendPairingResponse(c, recipient) ==
    /\ Invoked
    /\ IF client[c] = NoClient
       THEN NotReady(c, "sendPairingResponse") /\ UNCHANGED opCalls
       ELSE /\ Accepted(c, "sendPairingResponse")
            /\ opCalls' = Put(opCalls, c,
                            Append(opCalls[c], NewCall(c, "sendPairingResponse", recipient)))
    /\ UNCHANGED <<relayVars, client, chatOps, standbyRoom, p2pStorageOps>>
    /\ UNCHANGED <<startPc, peerRoomIds, joinedRooms, nextRoom, standbyTasks>>
    /\ UNCHANGED <<listenVars, storeVars>>

\* the last retry number at which waitForJoin still schedules a poll
MaxJoinRetry == 200

\* client.getRoomById(roomId).members; an unknown room has none
MembersOf(c, roomId) ==
    IF \E j \in 1..Len(joinedRooms[c]) : joinedRooms[c][j].id = roomId
    THEN (CHOOSE room \in {joinedRooms[c][j] : j \in 1..Len(joinedRooms[c])} : room.id = roomId).members
    ELSE {}

\* a poll every 100 ms throughout
waitForJoinDelayWithoutBackoff(retry) == 100

\* the delay of the timer waitForJoin(roomId, retry) sets, in ms:
\* 100 * (retry > 50 ? 10 : 1)
waitForJoinDelay(retry) == 100 * (IF retry > 50 THEN 10 ELSE 1)

\* a wait that is satisfied by the client's own membership
waitForJoinAloneIsEnough(c, call) ==
    IF Cardinality(MembersOf(c, call.roomId)) >= 1
    THEN [call EXCEPT !.pc = IF call.kind = "waitForJoin" THEN "done" ELSE "sendChannelOpen",
                      !.promise = IF call.kind = "waitForJoin" THEN "resolved" ELSE @,
                      !.retry = 0, !.polls = 0, !.waited = 0]
    ELSE [call EXCEPT !.retry = @ + 1]

\* waitForJoin(roomId, retry), one check of getRoomById: with two members it
\* returns (and what it counted is gone); otherwise it sets a timer for the next
\* check while retry <= 200, and throws after that
waitForJoin(c, call) ==
    IF Cardinality(MembersOf(c, call.roomId)) >= 2
    THEN [call EXCEPT !.pc = IF call.kind = "waitForJoin" THEN "done" ELSE "sendChannelOpen",
                      !.promise = IF call.kind = "waitForJoin" THEN "resolved" ELSE @,
                      !.retry = 0, !.polls = 0, !.waited = 0]
    ELSE IF call.retry <= MaxJoinRetry
         THEN [call EXCEPT !.retry = @ + 1, !.polls = @ + 1,
                           !.waited = @ + waitForJoinDelay(call.retry)]
    ELSE [call EXCEPT !.pc = "done", !.promise = "rejected", !.polls = @ + 1]

\* one run of waitForJoin: the first, or one started by the timer
WaitForJoin(c, i) ==
    /\ At(c, i, "waitForJoin")
    /\ opCalls' = PutCall(c, i, waitForJoin(c, opCalls[c][i]))
    /\ UNCHANGED <<relayVars, client, chatOps, standbyRoom, p2pStorageOps>>
    /\ UNCHANGED <<startPc, peerRoomIds, joinedRooms, nextRoom, standbyTasks, lastOp>>
    /\ UNCHANGED <<listenVars, storeVars>>

\* sendPairingResponse, after waitForJoin: the '@channel-open' text is handed to the
\* chat client (a failure of the send is logged) and the promise resolves
SendChannelOpen(c, i) ==
    /\ At(c, i, "sendChannelOpen")
    /\ chatOps' = Put(chatOps, c,
                      Append(chatOps[c], ChatOp("sendTextMessage", opCalls[c][i].roomId,
                                                "@channel-open")))
    /\ opCalls' = PutCall(c, i, [opCalls[c][i] EXCEPT !.promise = "resolved", !.pc = "done"])
    /\ UNCHANGED <<relayVars, client, standbyRoom, p2pStorageOps>>
    /\ UNCHANGED <<startPc, peerRoomIds, joinedRooms, nextRoom, standbyTasks, lastOp>>
    /\ UNCHANGED <<listenVars, storeVars>>

\* waitForJoin(roomId) is called from outside
WaitForJoinCall(c, roomId) ==
    /\ Invoked
    /\ IF client[c] = NoClient
       THEN NotReady(c, "waitForJoin") /\ UNCHANGED opCalls
       ELSE /\ Accepted(c, "waitForJoin")
            /\ opCalls' = Put(opCalls, c, Append(opCalls[c],
                   [NewCall(c, "waitForJoin", "none") EXCEPT !.roomId = roomId,
                                                             !.pc = "waitForJoin"]))
    /\ UNCHANGED <<relayVars, client, chatOps, standbyRoom, p2pStorageOps>>
    /\ UNCHANGED <<startPc, peerRoomIds, joinedRooms, nextRoom, standbyTasks>>
    /\ UNCHANGED <<listenVars, storeVars>>

\* tryJoinRooms(roomId) is called from outside: with a client it goes on to
\* `await this.client.joinRooms(roomId)`
TryJoinRooms(c, roomId) ==
    /\ Invoked
    /\ IF client[c] = NoClient
       THEN NotReady(c, "tryJoinRooms") /\ UNCHANGED <<opCalls, chatOps>>
       ELSE /\ Accepted(c, "tryJoinRooms")
            /\ chatOps' = Put(chatOps, c, Append(chatOps[c], ChatOp("joinRooms", roomId, "1")))
            /\ opCalls' = Put(opCalls, c, Append(opCalls[c],
                   [NewCall(c, "tryJoinRooms", "none") EXCEPT !.roomId = roomId,
                                                              !.retry = 1,
                                                              !.pc = "joinRooms"]))
    /\ UNCHANGED <<relayVars, client, standbyRoom, p2pStorageOps>>
    /\ UNCHANGED <<startPc, peerRoomIds, joinedRooms, nextRoom, standbyTasks>>
    /\ UNCHANGED <<listenVars, storeVars>>

\* the last retry number at which tryJoinRooms still sets a timer, and the delay
\* of that timer in ms
MaxJoinRoomsRetry == 10
JoinRetryDelay == 200

\* how `await this.client.joinRooms(roomId)` settles
JoinOutcomes == {"ok", "M_FORBIDDEN", "M_UNKNOWN"}

\* a catch handler that retries after every error
catchJoinRoomsRetryingEveryError(call, outcome) ==
    LET settled == [call EXCEPT !.outcomes = Append(@, outcome), !.promise = "resolved"]
    IN  IF outcome # "ok" /\ call.retry <= MaxJoinRoomsRetry
        THEN [settled EXCEPT !.pc = "joinTimer", !.waited = @ + JoinRetryDelay]
        ELSE [settled EXCEPT !.pc = "done"]

\* tryJoinRooms(roomId, retry) after `await this.client.joinRooms(roomId)`: on
\* M_FORBIDDEN with retry <= 10 a timer of 200 ms is set for
\* tryJoinRooms(roomId, retry + 1); any other error is logged; in each case the
\* promise of this tryJoinRooms resolves
catchJoinRooms(call, outcome) ==
    LET settled == [call EXCEPT !.outcomes = Append(@, outcome), !.promise = "resolved"]
    IN  IF outcome # "ok" /\ call.retry <= MaxJoinRoomsRetry /\ outcome = "M_FORBIDDEN"
        THEN [settled EXCEPT !.pc = "joinTimer", !.waited = @ + JoinRetryDelay]
        ELSE [settled EXCEPT !.pc = "done"]

\* the joined rooms of the chat client after a join of roomId
Joined(roomList, roomId) ==
    IF \E j \in 1..Len(roomList) : roomList[j].id = roomId THEN roomList
    ELSE Append(roomList, NewRoom(roomId, {}))

\* `await this.client.joinRooms(roomId)` of tryJoinRooms settles
JoinRoomsSettles(c, i, outcome) ==
    /\ At(c, i, "joinRooms")
    /\ opCalls' = PutCall(c, i, catchJoinRooms(opCalls[c][i], outcome))
    /\ joinedRooms' = Put(joinedRooms, c,
          IF outcome = "ok" THEN Joined(joinedRooms[c], opCalls[c][i].roomId) ELSE joinedRooms[c])
    /\ UNCHANGED <<relayVars, client, chatOps, standbyRoom, p2pStorageOps>>
    /\ UNCHANGED <<startPc, peerRoomIds, nextRoom, standbyTasks, lastOp>>
    /\ UNCHANGED <<listenVars, storeVars>>

\* the timer set by tryJoinRooms fires: tryJoinRooms(roomId, retry + 1) runs to
\* its `await this.client.joinRooms(roomId)` (this.client, once set, stays set)
JoinTimerFires(c, i) ==
    /\ At(c, i, "joinTimer")
    /\ client[c] # NoClient
    /\ LET call == opCalls[c][i]
       IN  /\ chatOps' = Put(chatOps, c, Append(chatOps[c],
                    ChatOp("joinRooms", call.roomId, ToString(call.retry + 1))))
           /\ opCalls' = PutCall(c, i, [call EXCEPT !.retry = @ + 1, !.pc = "joinRooms"])
    /\ UNCHANGED <<relayVars, client, standbyRoom, p2pStorageOps>>
    /\ UNCHANGED <<startPc, peerRoomIds, joinedRooms, nextRoom, standbyTasks, lastOp>>
    /\ UNCHANGED <<listenVars, storeVars>>

(***************************************************************************)
(* Listening: listenForEncryptedMessage, listenForChannelOpening,          *)
(* unsubscribeFromEncryptedMessage(s), and the arrival of message events   *)
(***************************************************************************)
\* the public keys of the peers that send to the client
Senders == {"P", "Q"}

crypto_secretbox_NONCEBYTES == 24
crypto_secretbox_MACBYTES == 16
FiveMinutes == 5 * 60 * 1000

\* no event is remembered
NoEvent == [id |-> 0]

\* no listener is recorded for the sender
NoListenerCall == 0

\* a message event. type: the message type. sender: the peer whose address the
\* message carries. channelOpen: whether the content starts with '@channel-open:@'
\* and the hash of the local key ("me"), of another key ("other"), or does not
\* ("no"). bytes: the length of the hex-decoded payload (of the content's last
\* ':'-separated segment). key: what opens the payload (the session key shared with
\* a peer, "sealed" for a box sealed to the local key pair, "none"). plaintext:
\* what the payload holds.
Event(type, sender, channelOpen, bytes, key, plaintext) ==
    [type |-> type, sender |-> sender, channelOpen |-> channelOpen, bytes |-> bytes,
     key |-> key, plaintext |-> plaintext]

\* a plaintext: whether JSON.parse accepts it, and the publicKey it then holds
Plaintext(json, publicKey) == [json |-> json, publicKey |-> publicKey]

isTextMessage(event) == event.type = "text"

\* event.content.message.sender starts with '@' + hash of senderPublicKey
isSender(event, senderPublicKey) == event.sender = senderPublicKey

\* content starts with '@channel-open:@' + hash of the local public key
isChannelOpenMessage(event) == event.channelOpen = "me"

\* Buffer.from(content, 'hex').length: a content that is a channel-open text is
\* not hex and decodes to nothing
HexLength(event) == IF event.channelOpen = "no" THEN event.bytes ELSE 0

\* decryptCryptoboxPayload(payload, sharedRx) of the listener for senderPublicKey
\* succeeds (utils/crypto)
decryptCryptoboxPayload(event, senderPublicKey) == event.key = senderPublicKey

\* openCryptobox(payload, publicKey, privateKey) succeeds (utils/crypto)
openCryptobox(event) == event.key = "sealed"

\* a callbackFunction that passes on what it could not decrypt
callbackFunctionWithoutDecryption(event, senderPublicKey) ==
    /\ isTextMessage(event)
    /\ isSender(event, senderPublicKey)
    /\ HexLength(event) >= crypto_secretbox_NONCEBYTES + crypto_secretbox_MACBYTES

\* callbackFunction(event) of listenForEncryptedMessage(senderPublicKey, ...):
\* whether it calls messageCallback
callbackFunction(event, senderPublicKey) ==
    /\ isTextMessage(event)
    /\ isSender(event, senderPublicKey)
    /\ HexLength(event) >= crypto_secretbox_NONCEBYTES + crypto_secretbox_MACBYTES
    /\ decryptCryptoboxPayload(event, senderPublicKey)

\* a listener that calls back for every channel-open text addressed to the client
channelOpeningListenerUnauthenticated(event) ==
    /\ isTextMessage(event)
    /\ isChannelOpenMessage(event)

\* the listener of listenForChannelOpening: whether it calls messageCallback
channelOpeningListener(event) ==
    /\ isTextMessage(event)
    /\ isChannelOpenMessage(event)
    /\ event.bytes >= crypto_secretbox_NONCEBYTES + crypto_secretbox_MACBYTES
    /\ openCryptobox(event)
    /\ event.plaintext.json

\* getSenderId(publicKey) (utils/get-sender-id)
getSenderId(publicKey) == "id-" \o publicKey

\* whether a subscribed listener, given the event, calls the callback it serves
CallsBack(listener, event) ==
    CASE listener.kind = "encrypted" -> callbackFunction(event, listener.sender)
      [] listener.kind = "channel" -> channelOpeningListener(event)
      [] OTHER -> FALSE

\* the call of a callback: which listener made it, for which event, and what it
\* passed (the plaintext of the event, or the pairing response with its senderId)
Delivery(listener, event) ==
    [kind |-> listener.kind, call |-> listener.call, sender |-> listener.sender,
     event |-> event.id, plaintext |-> event.plaintext,
     senderId |-> IF listener.kind = "channel" THEN getSenderId(event.plaintext.publicKey)
                  ELSE "none"]

\* the initial listener of start(): the event with the latest timestamp is kept
initialListenerBody(current, event) ==
    IF current # NoEvent /\ current.timestamp # 0 /\ event.timestamp # 0
    THEN IF current.timestamp < event.timestamp THEN event ELSE current
    ELSE event

\* whether the initial listener of start() is subscribed
InitialListenerSubscribed(c) ==
    \E j \in 1..Len(messageListeners[c]) : messageListeners[c][j] = InitialListener

\* a message event reaches the chat client, which calls every subscribed listener;
\* the event is numbered and stamped, and noted with whether the initial listener
\* heard it
MessageArrives(c, content) ==
    /\ client[c] # NoClient
    /\ Len(arrived[c]) < MaxEvents
    /\ LET event == [id |-> Len(arrived[c]) + 1, timestamp |-> now,
                     initial |-> InitialListenerSubscribed(c)] @@ content
           hits == SelectSeq(messageListeners[c], LAMBDA l : CallsBack(l, event))
       IN  /\ delivered' = Put(delivered, c,
                   delivered[c] \o [j \in 1..Len(hits) |-> Delivery(hits[j], event)])
           /\ initialEvent' = Put(initialEvent, c,
                   IF InitialListenerSubscribed(c)
                   THEN initialListenerBody(initialEvent[c], event)
                   ELSE initialEvent[c])
           /\ arrived' = Put(arrived, c, Append(arrived[c], event))
    /\ UNCHANGED <<messageListeners, activeListeners, initialListener, listening, now>>
    /\ UNCHANGED <<p2pVars, routeVars, storeVars>>

\* time passes
Tick(d) ==
    /\ now < MaxTicks * FiveMinutes
    /\ now' = now + d
    /\ UNCHANGED <<messageListeners, activeListeners, initialListener, initialEvent, delivered,
                   listening, arrived>>
    /\ UNCHANGED <<p2pVars, routeVars, storeVars>>

\* listenForEncryptedMessage(senderPublicKey, messageCallback) is called: without a
\* client it throws; with a listener recorded for the sender it returns; otherwise
\* it goes on to `await this.createCryptoBoxServer(...)`. The call is noted with
\* the number of events received before it, and later with the time at which its
\* listener is installed
ListenForEncryptedMessage(c, senderPublicKey) ==
    /\ Invoked
    /\ IF client[c] = NoClient
       THEN NotReady(c, "listenForEncryptedMessage") /\ UNCHANGED listening
       ELSE /\ Accepted(c, "listenForEncryptedMessage")
            /\ listening' = Put(listening, c,
                   IF activeListeners[c][senderPublicKey] # NoListenerCall THEN listening[c]
                   ELSE Append(listening[c],
                               [sender |-> senderPublicKey, pc |-> "createCryptoBoxServer",
                                seen |-> Len(arrived[c]), at |-> 0]))
    /\ UNCHANGED <<messageListeners, activeListeners, initialListener, initialEvent, delivered,
                   arrived, now>>
    /\ UNCHANGED <<p2pVars, storeVars>>
    /\ UNCHANGED <<startPc, peerRoomIds, joinedRooms, nextRoom, opCalls, standbyTasks>>

\* the end of listenForEncryptedMessage: the initial listener is unsubscribed and
\* forgotten with its event
WithoutInitialListener(c) ==
    IF initialListener[c]
    THEN SelectSeq(messageListeners[c], LAMBDA l : l # InitialListener)
    ELSE messageListeners[c]

\* a replay window of no length
replaysWithinNoTime(lastEvent, time) ==
    /\ lastEvent # NoEvent
    /\ lastEvent.timestamp # 0
    /\ time - lastEvent.timestamp < 0

\* whether the remembered event is handled: it has a timestamp less than five
\* minutes old
replays(lastEvent, time) ==
    /\ lastEvent # NoEvent
    /\ lastEvent.timestamp # 0
    /\ time - lastEvent.timestamp < FiveMinutes

\* listenForEncryptedMessage, after createCryptoBoxServer: callbackFunction is
\* recorded in activeListeners and subscribed; a remembered event that is recent
\* is passed to it (and the function suspends at `await callbackFunction(lastEvent)`);
\* without one the function ends
InstallListener(c, k) ==
    /\ k \in 1..Len(listening[c])
    /\ listening[c][k].pc = "createCryptoBoxServer"
    /\ LET sender == listening[c][k].sender
           listener == Listener("encrypted", sender, k)
           lastEvent == initialEvent[c]
       IN  /\ activeListeners' = Put(activeListeners, c,
                                     [activeListeners[c] EXCEPT ![sender] = k])
           /\ IF replays(lastEvent, now)
              THEN /\ messageListeners' = Put(messageListeners, c, Append(messageListeners[c], listener))
                   /\ delivered' = Put(delivered, c,
                          IF callbackFunction(lastEvent, sender)
                          THEN Append(delivered[c], Delivery(listener, lastEvent))
                          ELSE delivered[c])
                   /\ listening' = Put(listening, c, [listening[c] EXCEPT ![k].pc = "replayed", ![k].at = now])
                   /\ UNCHANGED <<initialListener, initialEvent>>
              ELSE /\ messageListeners' = Put(messageListeners, c,
                                        Append(WithoutInitialListener(c), listener))
                   /\ initialListener' = Put(initialListener, c, FALSE)
                   /\ initialEvent' = Put(initialEvent, c, NoEvent)
                   /\ listening' = Put(listening, c,
                                       [listening[c] EXCEPT ![k].pc = "done", ![k].at = now])
                   /\ UNCHANGED delivered
    /\ UNCHANGED <<arrived, now>>
    /\ UNCHANGED <<p2pVars, routeVars, storeVars>>

\* listenForEncryptedMessage, after `await callbackFunction(lastEvent)`
FinishListening(c, k) ==
    /\ k \in 1..Len(listening[c])
    /\ listening[c][k].pc = "replayed"
    /\ messageListeners' = Put(messageListeners, c, WithoutInitialListener(c))
    /\ initialListener' = Put(initialListener, c, FALSE)
    /\ initialEvent' = Put(initialEvent, c, NoEvent)
    /\ listening' = Put(listening, c, [listening[c] EXCEPT ![k].pc = "done"])
    /\ UNCHANGED <<activeListeners, delivered, arrived, now>>
    /\ UNCHANGED <<p2pVars, routeVars, storeVars>>

\* unsubscribeFromEncryptedMessage(senderPublicKey): the listener recorded for the
\* sender, if any, is unsubscribed and forgotten
UnsubscribeFromEncryptedMessage(c, senderPublicKey) ==
    /\ Invoked
    /\ IF client[c] = NoClient
       THEN /\ NotReady(c, "unsubscribeFromEncryptedMessage")
            /\ UNCHANGED <<messageListeners, activeListeners>>
       ELSE /\ Accepted(c, "unsubscribeFromEncryptedMessage")
            /\ LET k == activeListeners[c][senderPublicKey]
               IN  IF k = NoListenerCall THEN UNCHANGED <<messageListeners, activeListeners>>
                   ELSE /\ messageListeners' = Put(messageListeners, c,
                              SelectSeq(messageListeners[c],
                                  LAMBDA l : l # Listener("encrypted", senderPublicKey, k)))
                        /\ activeListeners' = Put(activeListeners, c,
                              [activeListeners[c] EXCEPT ![senderPublicKey] = NoListenerCall])
    /\ UNCHANGED <<initialListener, initialEvent, delivered, listening, arrived, now>>
    /\ UNCHANGED <<p2pVars, storeVars>>
    /\ UNCHANGED <<startPc, peerRoomIds, joinedRooms, nextRoom, opCalls, standbyTasks>>

\* unsubscribeFromEncryptedMessages(): every message listener is unsubscribed from
\* the chat client and activeListeners is cleared
UnsubscribeFromEncryptedMessages(c) ==
    /\ Invoked
    /\ IF client[c] = NoClient
       THEN /\ NotReady(c, "unsubscribeFromEncryptedMessages")
            /\ UNCHANGED <<messageListeners, activeListeners>>
       ELSE /\ Accepted(c, "unsubscribeFromEncryptedMessages")
            /\ messageListeners' = Put(messageListeners, c, <<>>)
            /\ activeListeners' = Put(activeListeners, c, [s \in Senders |-> NoListenerCall])
    /\ UNCHANGED <<initialListener, initialEvent, delivered, listening, arrived, now>>
    /\ UNCHANGED <<p2pVars, storeVars>>
    /\ UNCHANGED <<startPc, peerRoomIds, joinedRooms, nextRoom, opCalls, standbyTasks>>

\* listenForChannelOpening(messageCallback): its listener is subscribed
ListenForChannelOpening(c) ==
    /\ Invoked
    /\ IF client[c] = NoClient
       THEN NotReady(c, "listenForChannelOpening") /\ UNCHANGED messageListeners
       ELSE /\ Accepted(c, "listenForChannelOpening")
            /\ messageListeners' = Put(messageListeners, c,
                                 Append(messageListeners[c], Listener("channel", "none", 0)))
    /\ UNCHANGED <<activeListeners, initialListener, initialEvent, delivered, listening,
                   arrived, now>>
    /\ UNCHANGED <<p2pVars, storeVars>>
    /\ UNCHANGED <<startPc, peerRoomIds, joinedRooms, nextRoom, opCalls, standbyTasks>>

\* the listener of that kind was subscribed on the chat client before client.start
\* was invoked: it observes every event of the sync rounds that follow
SubscribedBeforeStart(c, kind) ==
    \E k, l \in 1..Len(chatOps[c]) :
        /\ k < l
        /\ chatOps[c][k] = ChatOp("subscribe", NoRoom, kind)
        /\ chatOps[c][l].op = "start"

\* an invite event reaches the chat client, whose sync client.start has begun; the
\* invite listener of start(), when it observes the event, calls
\* tryJoinRooms(event.content.roomId), which runs to its `await joinRooms`
InviteArrives(c, roomId) ==
    /\ \E l \in 1..Len(chatOps[c]) : chatOps[c][l].op = "start"
    /\ Len(arrived[c]) < MaxEvents
    /\ Len(opCalls[c]) < MaxCalls
    /\ LET heard == SubscribedBeforeStart(c, "invite")
           event == [id |-> Len(arrived[c]) + 1, timestamp |-> now, initial |-> heard,
                     roomId |-> roomId]
                    @@ Event("invite", "none", "no", 0, "none", Plaintext(FALSE, "none"))
       IN  /\ arrived' = Put(arrived, c, Append(arrived[c], event))
           /\ IF heard
              THEN /\ chatOps' = Put(chatOps, c, Append(chatOps[c], ChatOp("joinRooms", roomId, "1")))
                   /\ opCalls' = Put(opCalls, c, Append(opCalls[c],
                          [NewCall(c, "tryJoinRooms", "none") EXCEPT !.roomId = roomId,
                                                                     !.retry = 1,
                                                                     !.pc = "joinRooms"]))
              ELSE UNCHANGED <<chatOps, opCalls>>
    /\ UNCHANGED <<relayVars, client, standbyRoom, p2pStorageOps>>
    /\ UNCHANGED <<startPc, peerRoomIds, joinedRooms, nextRoom, standbyTasks, lastOp>>
    /\ UNCHANGED <<messageListeners, activeListeners, initialListener, initialEvent, delivered,
                   listening, now>>
    /\ UNCHANGED storeVars

(***************************************************************************)
(* MatrixClientStore                                                       *)
(***************************************************************************)
\* the fields of MatrixState
ScalarKeys == <<"isRunning", "userId", "deviceId", "txnNo", "accessToken", "syncToken",
                "pollingTimeout", "pollingRetries">>
StateKeys == {ScalarKeys[i] : i \in 1..Len(ScalarKeys)} \cup {"rooms"}

\* the order in which keys(stateChange) walks an update
KeyOrder == ScalarKeys \o <<"rooms">>

\* a set of fields that also keeps accessToken
PreservedFieldsWithAccessToken == {"syncToken", "rooms", "accessToken"}

PRESERVED_FIELDS == {"syncToken", "rooms"}

\* the value of each scalar field that JavaScript takes to be false: false, 0, ''
FalsyValue(key) ==
    CASE key = "isRunning" -> FALSE
      [] key \in {"txnNo", "pollingTimeout", "pollingRetries"} -> 0
      [] OTHER -> ""

\* Boolean(value) of the (optional) value of a field; arrays and objects are true
Truthy(key, value) ==
    /\ value # Omitted
    /\ key # "rooms" => value[1] # FalsyValue(key)

\* the field initializer of this.state
InitialState ==
    [isRunning |-> Given(FALSE), userId |-> Omitted, deviceId |-> Omitted,
     txnNo |-> Given(0), accessToken |-> Omitted, syncToken |-> Omitted,
     pollingTimeout |-> Omitted, pollingRetries |-> Given(0), rooms |-> <<>>]

\* a partial state: the fields given, every other field undefined
Partial(fields) ==
    [k \in StateKeys |-> IF k \in DOMAIN fields THEN Given(fields[k]) ELSE Omitted]

\* rooms given as an array, and as an object (its entries in insertion order)
RoomList(rooms) == [kind |-> "list", rooms |-> rooms]
RoomRecord(entries) == [kind |-> "map", entries |-> entries]

\* MatrixRoom.from(newState): the room itself
MatrixRoomFrom(room) == room

\* [...previous, ...new] without the repeated elements
RECURSIVE Dedupe(_)
Dedupe(seq) ==
    IF seq = <<>> THEN <<>>
    ELSE LET front == Dedupe(SubSeq(seq, 1, Len(seq) - 1))
             x == seq[Len(seq)]
         IN  IF \E i \in 1..Len(front) : front[i] = x THEN front ELSE Append(front, x)

\* MatrixRoom.merge(newState, previousState): the newer status, the members of
\* both, the messages of the previous snapshot followed by the new ones
MatrixRoomMerge(newState, previousState) ==
    IF previousState = Omitted \/ previousState[1].id # newState.id
    THEN MatrixRoomFrom(newState)
    ELSE [id |-> newState.id,
          status |-> newState.status,
          members |-> Dedupe(previousState[1].members \o newState.members),
          messages |-> previousState[1].messages \o newState.messages]

\* Object.values of an object, Array.isArray deciding which form was given
RoomsAsArray(newRooms) ==
    IF newRooms.kind = "list" THEN newRooms.rooms
    ELSE [i \in 1..Len(newRooms.entries) |-> newRooms.entries[i].room]

\* oldRooms[id], undefined when there is no such room
RoomAt(rooms, id) == IF id \in DOMAIN rooms THEN Given(rooms[id]) ELSE Omitted

\* merged[newRoom.id] = ...
PutRoom(rooms, room) ==
    [id \in DOMAIN rooms \cup {room.id} |-> IF id = room.id THEN room ELSE rooms[id]]

RECURSIVE MergeEach(_, _, _, _)
MergeEach(merged, oldRooms, newRooms, i) ==
    IF i > Len(newRooms) THEN merged
    ELSE MergeEach(PutRoom(merged, MatrixRoomMerge(newRooms[i], RoomAt(oldRooms, newRooms[i].id))),
                   oldRooms, newRooms, i + 1)

\* a merge that starts from no rooms instead of a copy of the old ones
mergeRoomsFromEmpty(oldRooms, newRooms) ==
    IF newRooms = Omitted THEN oldRooms
    ELSE MergeEach(<<>>, oldRooms, RoomsAsArray(newRooms[1]), 1)

\* mergeRooms(oldRooms, _newRooms)
mergeRooms(oldRooms, newRooms) ==
    IF newRooms = Omitted THEN oldRooms
    ELSE MergeEach(oldRooms, oldRooms, RoomsAsArray(newRooms[1]), 1)

\* an assignment of every value that is given, whatever it is
OrElseTakingEveryGivenValue(key, value, current) == IF value # Omitted THEN value ELSE current

\* partialState.<key> || this.state.<key>
OrElse(key, value, current) == IF Truthy(key, value) THEN value ELSE current

\* setState(partialState), from the state st
setState(st, partialState) ==
    [isRunning |-> OrElse("isRunning", partialState.isRunning, st.isRunning),
     userId |-> OrElse("userId", partialState.userId, st.userId),
     deviceId |-> OrElse("deviceId", partialState.deviceId, st.deviceId),
     txnNo |-> OrElse("txnNo", partialState.txnNo, st.txnNo),
     accessToken |-> OrElse("accessToken", partialState.accessToken, st.accessToken),
     syncToken |-> OrElse("syncToken", partialState.syncToken, st.syncToken),
     pollingTimeout |-> OrElse("pollingTimeout", partialState.pollingTimeout, st.pollingTimeout),
     pollingRetries |-> OrElse("pollingRetries", partialState.pollingRetries, st.pollingRetries),
     rooms |-> mergeRooms(st.rooms, partialState.rooms)]

\* a preparation that leaves the messages in place
prepareDataKeepingMessages(toStore) == toStore

\* prepareData(toStore): on a copy, every room's messages are emptied
prepareData(toStore) ==
    [k \in DOMAIN toStore |->
        IF k = "rooms"
        THEN [id \in DOMAIN toStore[k] |-> [toStore[k][id] EXCEPT !.messages = <<>>]]
        ELSE toStore[k]]

\* JSON.stringify of an object: the fields whose value is undefined are left out
JSONStringify(object) ==
    [k \in {f \in DOMAIN object : f = "rooms" \/ object[f] # Omitted} |-> object[k]]

\* an enumeration of the rooms of an object, by its keys
RECURSIVE EntriesOf(_)
EntriesOf(rooms) ==
    IF DOMAIN rooms = {} THEN <<>>
    ELSE LET id == CHOOSE x \in DOMAIN rooms : TRUE
         IN  <<[key |-> id, room |-> rooms[id]]>>
             \o EntriesOf([x \in DOMAIN rooms \ {id} |-> rooms[x]])

\* JSON.parse of a stored string: a partial state whose rooms are an object
JSONParse(json) ==
    [k \in StateKeys |->
        IF k \notin DOMAIN json THEN Omitted
        ELSE IF k = "rooms" THEN Given(RoomRecord(EntriesOf(json[k])))
        ELSE json[k]]

\* nothing stored under the key
NothingStored == [stored |-> FALSE]
Stored(json) == [stored |-> TRUE, json |-> json]

\* initFromStorage: setState(preserved ? JSON.parse(preserved) : {})
ParsePreserved(value) == IF value.stored THEN JSONParse(value.json) ELSE Partial(<<>>)

\* a persistence that writes for every preserved field an update mentions, truthy or not
updateStorageForAnyValue(stateUpdate, st) ==
    [write |-> \E k \in PRESERVED_FIELDS : stateUpdate[k] # Omitted,
     value |-> Stored(JSONStringify(prepareData([k \in PRESERVED_FIELDS |-> st[k]])))]

\* updateStorage(stateUpdate), with this.state = st: whether storage.set is called,
\* and with what
updateStorage(stateUpdate, st) ==
    LET updatedCachedFields ==
            {k \in StateKeys : k \in PRESERVED_FIELDS /\ Truthy(k, stateUpdate[k])}
        filteredState == [k \in PRESERVED_FIELDS |-> st[k]]
    IN  [write |-> updatedCachedFields # {},
         value |-> Stored(JSONStringify(prepareData(filteredState)))]

\* the slots of onStateChangedListeners
Slots == StateKeys \cup {"all"}
NoListener == "none"

\* the per-key part of notifyListeners: the listeners of the keys to notify, from
\* the i-th key on
RECURSIVE NotifyKeys(_, _, _, _, _, _)
NotifyKeys(registered, oldState, newState, stateChange, toNotify, i) ==
    IF i > Len(KeyOrder) THEN <<>>
    ELSE LET key == KeyOrder[i]
             rest == NotifyKeys(registered, oldState, newState, stateChange, toNotify, i + 1)
         IN  IF key \in toNotify /\ registered[key] # NoListener
             THEN <<[slot |-> key, listener |-> registered[key], oldState |-> oldState,
                     newState |-> newState, stateChange |-> stateChange]>> \o rest
             ELSE rest

\* the call of the 'all' listener, when there is one
NotifyAll(registered, oldState, newState, stateChange) ==
    IF registered["all"] # NoListener
    THEN <<[slot |-> "all", listener |-> registered["all"], oldState |-> oldState,
            newState |-> newState, stateChange |-> stateChange]>>
    ELSE <<>>

\* a notification that calls the listener of every key, carried or not
notifyListenersOfEveryKey(registered, oldState, newState, stateChange) ==
    NotifyAll(registered, oldState, newState, stateChange)
    \o NotifyKeys(registered, oldState, newState, stateChange, StateKeys, 1)

\* notifyListeners(oldState, newState, stateChange): the calls it makes, in order
notifyListeners(registered, oldState, newState, stateChange) ==
    NotifyAll(registered, oldState, newState, stateChange)
    \o NotifyKeys(registered, oldState, newState, stateChange,
                  {k \in StateKeys : stateChange[k] # Omitted}, 1)

\* no update body has run yet
NoLast == [id |-> 0]

\* update(stateUpdate), up to its `await this.waitReady()`: the call waits in line
Update(stateUpdate) ==
    /\ nCalls < MaxUpdates
    /\ nCalls' = nCalls + 1
    /\ waiters' = Append(waiters, [id |-> nCalls + 1, update |-> stateUpdate,
                                   early |-> ready = "pending"])
    /\ UNCHANGED <<state, ready, listeners, preserved, written, hydrated, applied, last,
                   stores, nSubscriptions>>
    /\ UNCHANGED <<p2pVars, routeVars, listenVars>>

\* what the body of update does with the call at the head of the line: the old
\* state is copied, the state is set, storage is updated, the listeners are called
UpdateBody ==
    LET call == Head(waiters)
        oldState == state
        newState == setState(state, call.update)
        storing == updateStorage(call.update, newState)
    IN  /\ state' = newState
        /\ preserved' = IF storing.write THEN storing.value ELSE preserved
        /\ written' = IF storing.write THEN Given(newState) ELSE written
        /\ last' = [id |-> call.id, update |-> call.update, early |-> call.early,
                    oldState |-> oldState, wrote |-> storing.write,
                    registered |-> listeners, stateAtNotify |-> newState,
                    notified |-> notifyListeners(listeners, oldState, newState, call.update)]
        /\ applied' = Append(applied, call.id)
        /\ waiters' = Tail(waiters)
        /\ UNCHANGED <<ready, listeners, hydrated, nCalls, stores, nSubscriptions>>
        /\ UNCHANGED <<p2pVars, routeVars, listenVars>>

\* a body that runs without waiting for waitReadyPromise
ApplyWithoutWaiting ==
    /\ waiters # <<>>
    /\ ready # "rejected"
    /\ UpdateBody

\* update(stateUpdate), after its await: waitReadyPromise is resolved, and the
\* calls resume in the order in which they awaited it
Apply ==
    /\ waiters # <<>>
    /\ ready = "resolved"
    /\ UpdateBody

\* update(stateUpdate) when waitReadyPromise is rejected: the call rejects
Reject ==
    /\ waiters # <<>>
    /\ ready = "rejected"
    /\ waiters' = Tail(waiters)
    /\ UNCHANGED <<state, ready, listeners, preserved, written, hydrated, nCalls, applied,
                   last, stores, nSubscriptions>>
    /\ UNCHANGED <<p2pVars, routeVars, listenVars>>

\* the read of initFromStorage returns: setState of what was stored, then resolve()
Hydrate ==
    /\ ready = "pending"
    /\ state' = setState(state, ParsePreserved(preserved))
    /\ hydrated' = preserved
    /\ ready' = "resolved"
    /\ UNCHANGED <<waiters, listeners, preserved, written, nCalls, applied, last, stores,
                   nSubscriptions>>
    /\ UNCHANGED <<p2pVars, routeVars, listenVars>>

\* the read of initFromStorage fails: reject(error)
HydrateFail ==
    /\ ready = "pending"
    /\ ready' = "rejected"
    /\ UNCHANGED <<state, waiters, listeners, preserved, written, hydrated, nCalls, applied,
                   last, stores, nSubscriptions>>
    /\ UNCHANGED <<p2pVars, routeVars, listenVars>>

RECURSIVE SetEach(_, _, _, _)
SetEach(registered, subscribed, listener, i) ==
    IF i > Len(subscribed) THEN registered
    ELSE SetEach([registered EXCEPT ![subscribed[i]] = listener], subscribed, listener, i + 1)

\* onStateChanged(listener, ...subscribed)
OnStateChanged(listener, subscribed) ==
    /\ nSubscriptions < MaxSubscriptions
    /\ nSubscriptions' = nSubscriptions + 1
    /\ listeners' = IF Len(subscribed) > 0
                    THEN SetEach(listeners, subscribed, listener, 1)
                    ELSE [listeners EXCEPT !["all"] = listener]
    /\ UNCHANGED <<state, ready, waiters, preserved, written, hydrated, nCalls, applied,
                   last, stores>>
    /\ UNCHANGED <<p2pVars, routeVars, listenVars>>

\* new MatrixClientStore(storage): the state of the field initializers, the read
\* of the stored state under way
NewStore ==
    /\ state = InitialState
    /\ ready = "pending"
    /\ waiters = <<>>
    /\ listeners = [s \in Slots |-> NoListener]
    /\ hydrated = NothingStored
    /\ applied = <<>>
    /\ last = NoLast

\* the process ends and a new store is created over the same storage
Restart ==
    /\ stores < MaxStores
    /\ stores' = stores + 1
    /\ state' = InitialState
    /\ ready' = "pending"
    /\ waiters' = <<>>
    /\ listeners' = [s \in Slots |-> NoListener]
    /\ hydrated' = NothingStored
    /\ applied' = <<>>
    /\ last' = NoLast
    /\ UNCHANGED <<preserved, written, nCalls, nSubscriptions>>
    /\ UNCHANGED <<p2pVars, routeVars, listenVars>>

\* the rooms the updates are made of
Room1 == [id |-> "r1", status |-> "joined", members |-> <<"alice">>, messages |-> <<"m1">>]
Room1Later == [id |-> "r1", status |-> "invited", members |-> <<"bob">>, messages |-> <<>>]
Room2 == [id |-> "r2", status |-> "joined", members |-> <<"alice">>, messages |-> <<"m2">>]

RoomsInputs ==
    {RoomList(<<>>), RoomList(<<Room1>>), RoomList(<<Room1Later, Room2>>),
     RoomRecord(<<[key |-> "k", room |-> Room1]>>)}

\* the values given to each scalar field: one that is false for JavaScript, and others
ScalarInputs ==
    [isRunning |-> {TRUE}, userId |-> {"u"}, txnNo |-> {0, 1}, accessToken |-> {"", "a"},
     syncToken |-> {"", "t1", "t2"}, pollingTimeout |-> {5}]

\* the updates: one field, rooms only, several fields, none
UpdateInputs ==
    UNION {{Partial(k :> v) : v \in ScalarInputs[k]} : k \in DOMAIN ScalarInputs}
    \cup {Partial("rooms" :> r) : r \in RoomsInputs}
    \cup {Partial(("syncToken" :> "t1") @@ ("rooms" :> RoomList(<<Room1>>))),
          Partial(("accessToken" :> "a") @@ ("syncToken" :> "t2")),
          Partial(<<>>)}

\* what the storage may hold when the first store is created
StoredInputs ==
    {NothingStored,
     Stored([syncToken |-> Given("t0"), rooms |-> ("r2" :> [Room2 EXCEPT !.messages = <<>>])])}

ListenerInputs == {"L1", "L2"}
SubscribedInputs == {<<>>, <<"syncToken">>, <<"syncToken", "rooms">>, <<"isRunning">>}

InitStore ==
    /\ NewStore
    /\ preserved \in StoredInputs
    /\ written = Omitted
    /\ nCalls = 0
    /\ stores = 1
    /\ nSubscriptions = 0

\* nothing has been called on the clients, which have no rooms and no bindings
IdleMessaging ==
    /\ startPc = [c \in Instances |-> "idle"]
    /\ peerRoomIds = [c \in Instances |-> NoBindings]
    /\ joinedRooms = [c \in Instances |-> <<>>]
    /\ nextRoom = [c \in Instances |-> 1]
    /\ opCalls = [c \in Instances |-> <<>>]
    /\ standbyTasks = [c \in Instances |-> <<>>]
    /\ lastOp = NoOp
    /\ messageListeners = [c \in Instances |-> <<>>]
    /\ activeListeners = [c \in Instances |-> [s \in Senders |-> NoListenerCall]]
    /\ initialListener = [c \in Instances |-> FALSE]
    /\ initialEvent = [c \in Instances |-> NoEvent]
    /\ delivered = [c \in Instances |-> <<>>]
    /\ listening = [c \in Instances |-> <<>>]
    /\ arrived = [c \in Instances |-> <<>>]
    /\ now = 1

\* the client takes no part
IdleP2P ==
    /\ hashOf = CHOOSE f \in HashFunctions : TRUE
    /\ keyHash = [c \in Instances |-> c]
    /\ matrixNodes = [c \in Instances |-> <<>>]
    /\ relayServers = [c \in Instances |-> Constructor(matrixNodes[c])]
    /\ client = [c \in Instances |-> NoClient]
    /\ lastCall = NoCall
    /\ lastInfo = NoInfo
    /\ chatOps = [c \in Instances |-> <<>>]
    /\ standbyRoom = [c \in Instances |-> NoRoom]
    /\ p2pStorageOps = [c \in Instances |-> 0]
    /\ IdleMessaging

\* the store takes no part
IdleStore ==
    /\ NewStore
    /\ preserved = NothingStored
    /\ written = Omitted
    /\ nCalls = 0
    /\ stores = 1
    /\ nSubscriptions = 0

InitP2P ==
    /\ hashOf \in HashFunctions
    \* two identities with different public keys, named in the order of their hashes
    /\ keyHash \in {k \in [Instances -> HashVals] : k[1] < k[2]}
    /\ \E nodes \in ServerLists : matrixNodes = [c \in Instances |-> nodes]
    /\ relayServers = [c \in Instances |-> Constructor(matrixNodes[c])]
    /\ client = [c \in Instances |-> NoClient]
    /\ lastCall = NoCall
    /\ lastInfo = NoInfo
    /\ chatOps = [c \in Instances |-> <<>>]
    /\ standbyRoom = [c \in Instances |-> NoRoom]
    /\ p2pStorageOps = [c \in Instances |-> 0]
    /\ IdleMessaging

NextRelay ==
    \E c \in Instances, n \in Nonces, h \in {Omitted} \cup {Given(v) : v \in HashVals} :
        GetRelayServerCall(c, h, n)

InitP2POnly == InitP2P /\ IdleStore

SpecRelay == InitP2POnly /\ [][NextRelay]_vars

NextPairing ==
    \/ \E c \in Instances : Start(c)
    \/ \E c \in Instances : StartCreateClient(c)
    \/ \E c \in Instances, loginOk \in BOOLEAN : StartLogin(c, loginOk)
    \/ \E c \in Instances, joinOk \in BOOLEAN : StartJoinRooms(c, joinOk)
    \/ \E c \in Instances : GetPairingRequestInfo(c)
    \/ \E c \in Instances :
          /\ lastInfo # NoInfo
          /\ lastInfo.type = "p2p-pairing-request"
          /\ lastInfo.instance # c
          /\ GetPairingResponseInfo(c, lastInfo)

SpecPairing == InitP2POnly /\ [][NextPairing]_vars

(***************************************************************************)
(* The store's specification                                               *)
(***************************************************************************)
\* hydration, updates, persistence and restarts; no listener is registered
NextStore ==
    \/ \E u \in UpdateInputs : Update(u)
    \/ Apply
    \/ Reject
    \/ Hydrate
    \/ HydrateFail
    \/ Restart

InitStoreOnly == InitStore /\ IdleP2P

SpecStore == InitStoreOnly /\ [][NextStore]_vars

\* the updates made while listeners are registered
ListenerUpdateInputs ==
    {Partial("syncToken" :> "t1"), Partial("rooms" :> RoomList(<<Room1>>)),
     Partial(("syncToken" :> "t2") @@ ("rooms" :> RoomList(<<Room2>>))),
     Partial("isRunning" :> TRUE), Partial(<<>>)}

\* registrations, updates and their notifications
NextListeners ==
    \/ \E l \in ListenerInputs, s \in SubscribedInputs : OnStateChanged(l, s)
    \/ \E u \in ListenerUpdateInputs : Update(u)
    \/ Apply
    \/ Hydrate

SpecListeners == InitStoreOnly /\ [][NextListeners]_vars

(***************************************************************************)
(* Claims about relay selection                                            *)
(***************************************************************************)
\* the list a call selects from, as the claim words it
ConfiguredList(c) == IF matrixNodes[c] = <<>> THEN KNOWN_RELAY_SERVERS ELSE matrixNodes[c]

\* the hash a call measures from
CallHash(call) ==
    IF call.publicKeyHash = Omitted THEN keyHash[call.instance] ELSE call.publicKeyHash[1]

\* the distance of the i-th server of the list of call's instance
CallDistance(call, i) ==
    Abs(CallHash(call) - hashOf[ConfiguredList(call.instance)[i] \o call.nonce])

\* the indices of the list at which the distance is minimal
ClosestIndices(call) ==
    LET n == Len(ConfiguredList(call.instance))
    IN  {i \in 1..n : \A j \in 1..n : CallDistance(call, i) <= CallDistance(call, j)}

\* C1 (as stated): getRelayServer returns a server of the configured list (the
\* built-in list when that is empty) at minimal distance, and among several
\* servers at the minimal distance the one EARLIEST in the list.
C1_EarliestClosestSelected ==
    lastCall # NoCall =>
        \E i \in ClosestIndices(lastCall) :
            /\ \A j \in ClosestIndices(lastCall) : i <= j
            /\ lastCall.result = ConfiguredList(lastCall.instance)[i]

\* C1 (amended): getRelayServer returns a server of the configured list (the
\* built-in list when that is empty) at minimal distance, and among several
\* servers at the minimal distance the one LATEST in the list; a one-element
\* list yields its element.
C1_LatestClosestSelected ==
    lastCall # NoCall =>
        \E i \in ClosestIndices(lastCall) :
            /\ \A j \in ClosestIndices(lastCall) : j <= i
            /\ lastCall.result = ConfiguredList(lastCall.instance)[i]

\* a call has selected between two different servers at the same minimal distance
C1_TieWitness ==
    /\ lastCall # NoCall
    /\ \E i, j \in ClosestIndices(lastCall) :
          /\ i < j
          /\ ConfiguredList(lastCall.instance)[i] # ConfiguredList(lastCall.instance)[j]
          /\ lastCall.result = ConfiguredList(lastCall.instance)[j]

\* C2 (as stated): the relayServer of every pairing descriptor is the relay
\* selected with nonce "0" for the instance's public key hash, the relay start()
\* creates the chat client against.
C2_AdvertisedRelayIsLoginRelay ==
    lastInfo # NoInfo =>
        /\ lastInfo.relayServer =
               getRelayServer(lastInfo.instance, Given(getPublicKeyHash(lastInfo.instance)), "0")
        /\ client[lastInfo.instance] # NoClient =>
               client[lastInfo.instance].relay = lastInfo.relayServer

\* C3: two calls of getRelayServer on instances with the same server list, with
\* the same hash and the same nonce, return the same server (also when both are
\* made on one instance), and a call performs no storage or chat operation and
\* changes no state of the client.
C3_RelaySelectionPure ==
    [][ lastCall' # NoCall =>
          /\ UNCHANGED <<keyHash, matrixNodes, relayServers, client, lastInfo, chatOps,
                         standbyRoom, p2pStorageOps>>
          /\ UNCHANGED <<routeVars, listenVars>>
          /\ ( /\ lastCall # NoCall
               /\ relayServers[lastCall.instance] = relayServers[lastCall'.instance]
               /\ CallHash(lastCall) = CallHash(lastCall')
               /\ lastCall.nonce = lastCall'.nonce )
             => lastCall'.result = lastCall.result ]_vars

\* a call on instance 2, whose key differs from that of instance 1, has chosen
\* between several servers for a hash that was passed in
C3_Witness ==
    /\ lastCall # NoCall
    /\ lastCall.instance = 2
    /\ lastCall.publicKeyHash # Omitted
    /\ lastCall.publicKeyHash[1] # keyHash[2]
    /\ Len(relayServers[2]) > 1
    /\ relayServers[1] = relayServers[2]
    /\ getRelayServer(1, lastCall.publicKeyHash, lastCall.nonce) = lastCall.result

(***************************************************************************)
(* Claims about the state store                                            *)
(***************************************************************************)
\* the ids of the rooms an update carries
RoomIdsOf(rooms) ==
    IF rooms = Omitted THEN {}
    ELSE {RoomsAsArray(rooms[1])[i].id : i \in 1..Len(RoomsAsArray(rooms[1]))}

\* the scalar fields that are not persisted
OtherKeys ==
    {"isRunning", "userId", "deviceId", "txnNo", "accessToken", "pollingTimeout",
     "pollingRetries"}

\* a step in which the body of an update has run
UpdateRan == last' # last /\ last' # NoLast

\* the fields of a store on which hydration and one update have completed: what
\* hydration read, and the scalar fields the update carried
HydratedAndUpdatedOnce == ready = "resolved" /\ Len(applied) = 1
ScalarKeySet == {ScalarKeys[i] : i \in 1..Len(ScalarKeys)}
HydratedValue(key) ==
    IF key \in PRESERVED_FIELDS /\ Truthy(key, ParsePreserved(hydrated)[key])
    THEN ParsePreserved(hydrated)[key] ELSE InitialState[key]

\* C4 (as stated): the body of an update runs only after hydration has written
\* the stored values into the state; once hydration and the first update of a
\* store have both completed, every scalar field holds the update's value when
\* the update carried the field and the hydrated value otherwise, and the rooms
\* are those of both.
C4_UpdateValuesHeld ==
    /\ applied # <<>> => ready = "resolved"
    /\ HydratedAndUpdatedOnce =>
          /\ \A k \in ScalarKeySet :
                state[k] = IF last.update[k] # Omitted THEN last.update[k]
                           ELSE HydratedValue(k)
          /\ DOMAIN state.rooms = RoomIdsOf(ParsePreserved(hydrated).rooms)
                                  \cup RoomIdsOf(last.update.rooms)

\* C4 (amended): as above, a scalar field holding the update's value when the
\* update carried a value of it that JavaScript takes to be true, and the
\* hydrated value otherwise.
C4_NoUpdateLostToStartup ==
    /\ applied # <<>> => ready = "resolved"
    /\ HydratedAndUpdatedOnce =>
          /\ \A k \in ScalarKeySet :
                state[k] = IF Truthy(k, last.update[k]) THEN last.update[k]
                           ELSE HydratedValue(k)
          /\ DOMAIN state.rooms = RoomIdsOf(ParsePreserved(hydrated).rooms)
                                  \cup RoomIdsOf(last.update.rooms)

\* an update carrying a syncToken was called while hydration was pending, storage
\* holding another syncToken and a room, and both have completed
C4_Witness ==
    /\ ready = "resolved"
    /\ Len(applied) = 1
    /\ last.early
    /\ hydrated.stored
    /\ Truthy("syncToken", last.update.syncToken)
    /\ state.syncToken = last.update.syncToken
    /\ state.syncToken # hydrated.json.syncToken
    /\ "r2" \in DOMAIN state.rooms

\* C5 (as stated): updates are applied in the order of their calls, and for each
\* update every listener is called at most once, a listener registered for 'all'
\* or for a carried key exactly once.
C5_InOrderExactlyOnce ==
    /\ \A i \in 1..Len(applied) : applied[i] = i
    /\ last # NoLast =>
          \A l \in ListenerInputs :
              LET calls == {i \in 1..Len(last.notified) : last.notified[i].listener = l}
                  due == \/ last.registered["all"] = l
                         \/ \E k \in StateKeys : /\ last.update[k] # Omitted
                                                  /\ last.registered[k] = l
              IN  Cardinality(calls) = IF due THEN 1 ELSE 0

\* C6: the body of an update calls storage.set if and only if the update carries
\* a truthy syncToken or a truthy rooms value, and then it stores the state as it
\* is after the update; otherwise storage is left as it was.
C6_WritesIffPreservedFieldTruthy ==
    [][ UpdateRan =>
          IF \/ Truthy("syncToken", last'.update.syncToken)
             \/ Truthy("rooms", last'.update.rooms)
          THEN last'.wrote /\ written' = Given(state') /\ preserved'.stored
          ELSE ~last'.wrote /\ written' = written /\ preserved' = preserved ]_vars

\* after an update that wrote, an update carrying only an access token has left
\* storage alone
C6_Witness ==
    /\ last # NoLast
    /\ ~last.wrote
    /\ last.update.accessToken = Given("a")
    /\ state.accessToken = Given("a")
    /\ written # Omitted
    /\ preserved.stored

\* C7: what is stored has the fields syncToken and rooms only; a new store over
\* the same storage has, once hydrated, the syncToken and the room ids of the
\* state as of the last update that wrote, and every other field at its default.
C7_OnlySyncTokenAndRoomsSurvive ==
    /\ preserved.stored => DOMAIN preserved.json \subseteq {"syncToken", "rooms"}
    /\ (stores > 1 /\ ready = "resolved" /\ applied = <<>>) =>
          /\ \A k \in OtherKeys : state[k] = InitialState[k]
          /\ written # Omitted =>
                /\ state.syncToken = written[1].syncToken
                /\ DOMAIN state.rooms = DOMAIN written[1].rooms

\* a store that had been given an access token, a syncToken and a room was
\* replaced by a new one, which has hydrated
C7_Witness ==
    /\ stores > 1
    /\ ready = "resolved"
    /\ applied = <<>>
    /\ written # Omitted
    /\ written[1].accessToken = Given("a")
    /\ written[1].syncToken = Given("t2")
    /\ state.syncToken = Given("t2")
    /\ state.accessToken = Omitted
    /\ DOMAIN state.rooms # {}

\* C8: in everything the store writes each room has no messages, and the rooms
\* of a newly hydrated store have none.
C8_MessagesNeverPersisted ==
    /\ preserved.stored =>
          \A id \in DOMAIN preserved.json.rooms : preserved.json.rooms[id].messages = <<>>
    /\ (ready = "resolved" /\ applied = <<>>) =>
          \A id \in DOMAIN state.rooms : state.rooms[id].messages = <<>>

\* a room was stored while the store held a message of it, and a new store has
\* reloaded the room without it
C8_Witness ==
    /\ stores > 1
    /\ ready = "resolved"
    /\ applied = <<>>
    /\ written # Omitted
    /\ "r1" \in DOMAIN written[1].rooms
    /\ written[1].rooms["r1"].messages = <<"m1">>
    /\ "r1" \in DOMAIN state.rooms
    /\ state.rooms["r1"].messages = <<>>

\* C9: after an update carrying rooms R, as an array or as an object, the room
\* ids are the old ones and those of R, every room not in R is as it was, and
\* the object form gives what the array of its values gives; an update without
\* rooms leaves the rooms as they were.
C9_RoomsMergedById ==
    [][ UpdateRan =>
          LET given == last'.update.rooms
          IN  IF given = Omitted THEN state'.rooms = state.rooms
              ELSE /\ DOMAIN state'.rooms = DOMAIN state.rooms \cup RoomIdsOf(given)
                   /\ \A id \in DOMAIN state.rooms \ RoomIdsOf(given) :
                         state'.rooms[id] = state.rooms[id]
                   /\ state'.rooms =
                         mergeRooms(state.rooms, Given(RoomList(RoomsAsArray(given[1])))) ]_vars

\* an update given as an object has added room r1 to a store that held room r2
C9_Witness ==
    /\ last # NoLast
    /\ last.update.rooms # Omitted
    /\ last.update.rooms[1].kind = "map"
    /\ DOMAIN last.oldState.rooms = {"r2"}
    /\ DOMAIN state.rooms = {"r1", "r2"}
    /\ state.rooms["r2"] = last.oldState.rooms["r2"]

\* C10: when the body of an update runs, the 'all' listener and the listener of
\* each key the update carries are called, once each and no other, with the state
\* before the update, the state after it (which is this.state during the call)
\* and the update.
C10_ListenersSeeTheTransition ==
    [][ UpdateRan =>
          LET calls == last'.notified
              delta == Head(waiters).update
              slots == {s \in {"all"} : listeners[s] # NoListener}
                       \cup {k \in StateKeys : delta[k] # Omitted /\ listeners[k] # NoListener}
          IN  /\ {calls[i].slot : i \in 1..Len(calls)} = slots
              /\ Len(calls) = Cardinality(slots)
              /\ last'.stateAtNotify = state'
              /\ \A i \in 1..Len(calls) :
                    /\ calls[i].listener = listeners[calls[i].slot]
                    /\ calls[i].oldState = state
                    /\ calls[i].newState = state'
                    /\ calls[i].stateChange = delta ]_vars

\* a listener registered for syncToken and for rooms was called once, for an
\* update that carried a syncToken and no rooms and that changed the state
C10_Witness ==
    /\ last # NoLast
    /\ last.registered["syncToken"] # NoListener
    /\ last.registered["rooms"] # NoListener
    /\ last.update.rooms = Omitted
    /\ Len(last.notified) = 1
    /\ last.notified[1].slot = "syncToken"
    /\ last.notified[1].oldState # last.notified[1].newState
    /\ last.notified[1].newState = state

(***************************************************************************)
(* Specifications of start, routing, sending and listening                 *)
(***************************************************************************)
\* the instance c is the one the behaviour is about: the other has not been started
\* and nothing has been invoked on it
Solo(c) ==
    /\ \A d \in Instances \ {c} : startPc[d] = "idle"
    /\ lastOp = NoOp \/ lastOp.instance = c

\* the rooms an operation from outside may name
RoomInputs == {StaleRoom}

\* one client is started, and operations are invoked on it at any moment
NextReady ==
    \/ \E c \in Instances : Solo(c) /\ Start(c)
    \/ \E c \in Instances : Solo(c) /\ StartCreateClient(c)
    \/ \E c \in Instances, loginOk \in BOOLEAN : Solo(c) /\ StartLogin(c, loginOk)
    \/ \E c \in Instances, joinOk \in BOOLEAN : Solo(c) /\ StartJoinRooms(c, joinOk)
    \/ \E c \in Instances, roomId \in RoomInputs : Solo(c) /\ TryJoinRooms(c, roomId)
    \/ \E c \in Instances, s \in Senders : Solo(c) /\ ListenForEncryptedMessage(c, s)
    \/ \E c \in Instances, s \in Senders : Solo(c) /\ UnsubscribeFromEncryptedMessage(c, s)
    \/ \E c \in Instances : Solo(c) /\ UnsubscribeFromEncryptedMessages(c)
    \/ \E c \in Instances, r \in Recipients : Solo(c) /\ SendMessage(c, r)
    \/ \E c \in Instances : Solo(c) /\ ListenForChannelOpening(c)
    \/ \E c \in Instances, roomId \in RoomInputs : Solo(c) /\ WaitForJoinCall(c, roomId)
    \/ \E c \in Instances, r \in Recipients : Solo(c) /\ SendPairingResponse(c, r)

InitIdle == IdleP2P /\ IdleStore

SpecReady == InitIdle /\ [][NextReady]_vars

(***************************************************************************)
(* Claims about readiness                                                  *)
(***************************************************************************)
\* C11 (as stated): a chat-dependent operation invoked before start() has completed
\* fails with the client-not-ready error, and its invocation performs no operation
\* on the chat client and writes nothing to storage.
C11_NotReadyUntilStartCompletes ==
    [][lastOp' # lastOp /\ lastOp'.during # "done"
         => /\ lastOp'.result = "not-ready"
            /\ UNCHANGED <<chatOps, messageListeners, peerRoomIds, standbyRoom>>]_vars

\* the room a wallet prepared in an earlier session
StandbyRoom == "room-s"

\* the client c has been started in this session: start() has created the chat
\* client, subscribed its listeners, logged in and joined the invited rooms
Started(c) ==
    LET relay == getRelayServer(c, Given(getPublicKeyHash(c)), "0")
    IN  /\ startPc = [d \in Instances |-> IF d = c THEN "done" ELSE "idle"]
        /\ client = [d \in Instances |->
               IF d = c THEN [baseUrl |-> "https://" \o relay, relay |-> relay, loggedIn |-> TRUE]
               ELSE NoClient]
        /\ chatOps = [d \in Instances |->
               IF d = c THEN <<ChatOp("subscribe", NoRoom, "message"),
                              ChatOp("subscribe", NoRoom, "invite"),
                              ChatOp("start", NoRoom, "login"),
                              ChatOp("joinRooms", NoRoom, "invited")>>
               ELSE <<>>]
        /\ messageListeners = [d \in Instances |-> IF d = c THEN <<InitialListener>> ELSE <<>>]
        /\ initialListener = [d \in Instances |-> d = c]

\* what earlier sessions left: the recipient R1 bound to a room or no binding, that
\* room still joined with R1 in it or not, and, for a wallet, a standby room or none
EarlierSessions(c) ==
    /\ \E bound \in BOOLEAN :
          peerRoomIds = [d \in Instances |->
              IF d = c /\ bound THEN [NoBindings EXCEPT !["R1"] = StaleRoom] ELSE NoBindings]
    /\ \E joined \in BOOLEAN, standby \in {s \in BOOLEAN : s => isWallet(c)} :
          /\ joinedRooms = [d \in Instances |->
                IF d # c THEN <<>>
                ELSE (IF joined THEN <<[id |-> StaleRoom, members |-> {Me, "R1"}, invited |-> {}]>>
                      ELSE <<>>)
                     \o (IF standby THEN <<NewRoom(StandbyRoom, {})>> ELSE <<>>)]
          /\ standbyRoom = [d \in Instances |-> IF d = c /\ standby THEN StandbyRoom ELSE NoRoom]

\* a started client, with what earlier sessions left in storage and on the server
InitStarted ==
    /\ hashOf = CHOOSE f \in HashFunctions : TRUE
    /\ keyHash = [c \in Instances |-> c]
    /\ matrixNodes = [c \in Instances |-> <<>>]
    /\ relayServers = [c \in Instances |-> Constructor(matrixNodes[c])]
    /\ lastCall = NoCall
    /\ lastInfo = NoInfo
    /\ p2pStorageOps = [c \in Instances |-> 0]
    /\ \E c \in Instances : Started(c) /\ EarlierSessions(c)
    /\ nextRoom = [c \in Instances |-> 1]
    /\ opCalls = [c \in Instances |-> <<>>]
    /\ standbyTasks = [c \in Instances |-> <<>>]
    /\ lastOp = NoOp
    /\ activeListeners = [c \in Instances |-> [s \in Senders |-> NoListenerCall]]
    /\ initialEvent = [c \in Instances |-> NoEvent]
    /\ delivered = [c \in Instances |-> <<>>]
    /\ listening = [c \in Instances |-> <<>>]
    /\ arrived = [c \in Instances |-> <<>>]
    /\ now = 1
    /\ IdleStore

\* sendMessage calls on a started client, their steps interleaved
NextSend ==
    \/ \E c \in Instances, r \in Recipients : SendMessage(c, r)
    \/ \E c \in Instances, i \in 1..MaxCalls : GetRelevantRoom(c, i)
    \/ \E c \in Instances, i \in 1..MaxCalls : GetRelevantJoinedRoom(c, i)
    \/ \E c \in Instances, i \in 1..MaxCalls : GetStandbyRoom(c, i)
    \/ \E c \in Instances, i \in 1..MaxCalls : RemoveStandbyRoom(c, i)
    \/ \E c \in Instances, i \in 1..MaxCalls : InviteToRooms(c, i)
    \/ \E c \in Instances, i \in 1..MaxCalls : CreateTrustedPrivateRoom(c, i)
    \/ \E c \in Instances, i \in 1..MaxCalls : SetRoomIds(c, i)
    \/ \E c \in Instances, i \in 1..MaxCalls : SendTextMessage(c, i)
    \/ \E c \in Instances, i \in 1..MaxCalls, o \in SendOutcomes : SendSettles(c, i, o)
    \/ \E c \in Instances, i \in 1..MaxCalls : DeleteRoomIdGet(c, i)
    \/ \E c \in Instances, i \in 1..MaxCalls : DeleteRoomIdSet(c, i)
    \/ \E c \in Instances, i \in 1..MaxCalls : SendAgain(c, i)
    \/ \E c \in Instances, i \in 1..MaxCalls, o \in SendOutcomes : SendAgainSettles(c, i, o)

SpecSend == InitStarted /\ [][NextSend]_vars

(***************************************************************************)
(* Claims about sending                                                    *)
(***************************************************************************)
\* the sendMessage calls made on instance c
SendMessageCalls(c) == {i \in 1..Len(opCalls[c]) : opCalls[c][i].kind = "sendMessage"}

\* the places in the chat log where the message of call i was handed to the chat client
SendsOf(c, i) ==
    {k \in 1..Len(chatOps[c]) :
        chatOps[c][k].op = "sendTextMessage" /\ chatOps[c][k].arg = Message(i)}

\* C12: when the first send of a sendMessage call fails with M_FORBIDDEN, the
\* binding of the recipient to the failing room is removed from the stored
\* bindings, a room is resolved again and the message is sent a second time, once;
\* however the second send settles nothing more is sent; and a first send that
\* fails otherwise is followed by no eviction, no resolution and no second send.
C12_ForbiddenRecovery ==
    /\ [](\A c \in Instances : \A i \in SendMessageCalls(c) :
            LET call == opCalls[c][i]
                sends == Cardinality(SendsOf(c, i))
            IN  /\ sends <= 2
                /\ call.attempt = 2 => call.outcomes[1] = "M_FORBIDDEN"
                /\ Len(call.outcomes) >= 1 /\ call.outcomes[1] # "M_FORBIDDEN"
                      => call.pc = "done" /\ sends = 1 /\ call.attempt = 1
                         /\ Len(call.returned) = 1
                /\ Len(call.outcomes) = 2 => call.pc = "done" /\ sends = 2
                /\ call.pc = "done" /\ call.outcomes[1] = "M_FORBIDDEN"
                      => sends = 2 /\ Len(call.returned) = 2 /\ Len(call.outcomes) = 2)
    /\ [][\A c \in Instances : \A i \in SendMessageCalls(c) :
            opCalls[c][i].attempt = 1 /\ opCalls'[c][i].attempt = 2
               => /\ opCalls[c][i].outcomes = <<"M_FORBIDDEN">>
                  /\ peerRoomIds'[c][opCalls[c][i].recipient] # opCalls[c][i].roomId]_vars

\* a call whose two sends both failed with M_FORBIDDEN has ended
C12_Witness ==
    \E c \in Instances : \E i \in SendMessageCalls(c) :
        /\ opCalls[c][i].pc = "done"
        /\ opCalls[c][i].outcomes = <<"M_FORBIDDEN", "M_FORBIDDEN">>
        /\ Cardinality(SendsOf(c, i)) = 2

\* C13 (as stated): when the recipient was bound to a room X and the first send
\* into X failed with M_FORBIDDEN, the room resolved for the second send is not X,
\* the recipient ends bound to that room (no other call having been made), and the
\* message is handed to the chat client at most twice.
C13_RetryGoesToADifferentRoom ==
    \A c \in Instances : \A i \in SendMessageCalls(c) :
        LET call == opCalls[c][i]
        IN  call.cached /\ Len(call.returned) = 2
               => /\ call.returned[2] # call.returned[1]
                  /\ Len(opCalls[c]) = 1 => peerRoomIds[c][call.recipient] = call.returned[2]
                  /\ Cardinality(SendsOf(c, i)) <= 2

(***************************************************************************)
(* sendPairingResponse                                                     *)
(***************************************************************************)
\* every call made on c has ended: the caller awaits one call before the next
Awaited(c) == \A i \in 1..Len(opCalls[c]) : opCalls[c][i].pc = "done"

\* pairing responses sent one after the other by a started client, while the
\* recipients join, or do not join, the rooms they are invited to
NextPairingResponse ==
    \/ \E c \in Instances, r \in Recipients : Awaited(c) /\ SendPairingResponse(c, r)
    \/ \E c \in Instances, i \in 1..MaxCalls : GetRelevantRoom(c, i)
    \/ \E c \in Instances, i \in 1..MaxCalls : GetRelevantJoinedRoom(c, i)
    \/ \E c \in Instances, i \in 1..MaxCalls : GetStandbyRoom(c, i)
    \/ \E c \in Instances, i \in 1..MaxCalls : RemoveStandbyRoom(c, i)
    \/ \E c \in Instances, i \in 1..MaxCalls : InviteToRooms(c, i)
    \/ \E c \in Instances, i \in 1..MaxCalls : CreateTrustedPrivateRoom(c, i)
    \/ \E c \in Instances, i \in 1..MaxCalls : SetRoomIds(c, i)
    \/ \E c \in Instances, i \in 1..MaxCalls : WaitForJoin(c, i)
    \/ \E c \in Instances, i \in 1..MaxCalls : SendChannelOpen(c, i)
    \/ \E c \in Instances, j \in 1..(MaxCalls + 2) : PeerJoins(c, j)

SpecPairingResponse == InitStarted /\ [][NextPairingResponse]_vars

\* the places in the chat log where a '@channel-open' text was handed over
ChannelOpens(c) ==
    {k \in 1..Len(chatOps[c]) :
        chatOps[c][k].op = "sendTextMessage" /\ chatOps[c][k].arg = "@channel-open"}

\* the sendPairingResponse calls made on instance c
PairingResponseCalls(c) ==
    {i \in 1..Len(opCalls[c]) : opCalls[c][i].kind = "sendPairingResponse"}

\* C14: a '@channel-open' text is handed to the chat client only by a call whose
\* waitForJoin has seen at least two members in the resolved room; a call whose
\* waitForJoin gives up (after its last poll, retry 201) rejects, and hands over
\* no '@channel-open' text.
C14_ChannelOpenOnlyAfterJoin ==
    /\ [](\A c \in Instances :
            /\ \A k \in ChannelOpens(c) : Cardinality(MembersOf(c, chatOps[c][k].room)) >= 2
            /\ \A i \in PairingResponseCalls(c) :
                  /\ opCalls[c][i].pc = "sendChannelOpen"
                        => Cardinality(MembersOf(c, opCalls[c][i].roomId)) >= 2
                  /\ opCalls[c][i].promise = "rejected"
                        => opCalls[c][i].pc = "done" /\ opCalls[c][i].retry = MaxJoinRetry + 1
            /\ Cardinality(ChannelOpens(c)) =
                  Cardinality({i \in PairingResponseCalls(c) : opCalls[c][i].promise = "resolved"}))
    /\ [][\A c \in Instances : \A i \in PairingResponseCalls(c) :
            /\ opCalls[c][i].promise = "pending" /\ opCalls'[c][i].promise = "rejected"
                  => /\ chatOps' = chatOps
                     /\ Cardinality(MembersOf(c, opCalls[c][i].roomId)) < 2
            /\ opCalls[c][i].promise = "rejected"
                  => opCalls'[c][i] = opCalls[c][i]]_vars

\* one call has given up and another has sent its '@channel-open' text
C14_Witness ==
    \E c \in Instances : \E i, j \in PairingResponseCalls(c) :
        /\ opCalls[c][i].promise = "rejected"
        /\ opCalls[c][j].promise = "resolved"
        /\ ChannelOpens(c) # {}

(***************************************************************************)
(* The standby room                                                        *)
(***************************************************************************)
\* the prepareStandbyRoom calls that may run: each call may consume a standby room twice
MaxTasks == 2 * MaxCalls

\* sendMessage calls made one after the other on a started client, with the
\* replacement of a consumed standby room running beside them
NextStandby ==
    \/ \E c \in Instances, r \in Recipients : Awaited(c) /\ SendMessage(c, r)
    \/ \E c \in Instances, i \in 1..MaxCalls : GetRelevantRoom(c, i)
    \/ \E c \in Instances, i \in 1..MaxCalls : GetRelevantJoinedRoom(c, i)
    \/ \E c \in Instances, i \in 1..MaxCalls : GetStandbyRoom(c, i)
    \/ \E c \in Instances, i \in 1..MaxCalls : RemoveStandbyRoom(c, i)
    \/ \E c \in Instances, i \in 1..MaxCalls : InviteToRooms(c, i)
    \/ \E c \in Instances, i \in 1..MaxCalls : CreateTrustedPrivateRoom(c, i)
    \/ \E c \in Instances, i \in 1..MaxCalls : SetRoomIds(c, i)
    \/ \E c \in Instances, i \in 1..MaxCalls : SendTextMessage(c, i)
    \/ \E c \in Instances, i \in 1..MaxCalls, o \in SendOutcomes : SendSettles(c, i, o)
    \/ \E c \in Instances, i \in 1..MaxCalls : DeleteRoomIdGet(c, i)
    \/ \E c \in Instances, i \in 1..MaxCalls : DeleteRoomIdSet(c, i)
    \/ \E c \in Instances, i \in 1..MaxCalls : SendAgain(c, i)
    \/ \E c \in Instances, i \in 1..MaxCalls, o \in SendOutcomes : SendAgainSettles(c, i, o)
    \/ \E c \in Instances, t \in 1..MaxTasks : PrepareStandbyRoomGet(c, t)
    \/ \E c \in Instances, t \in 1..MaxTasks, ok \in BOOLEAN : PrepareStandbyRoomCreate(c, t, ok)
    \/ \E c \in Instances, t \in 1..MaxTasks : PrepareStandbyRoomSet(c, t)

\* a step of a prepareStandbyRoom call
PrepareStandbyRoomStep ==
    \E c \in Instances, t \in 1..MaxTasks :
        \/ PrepareStandbyRoomGet(c, t)
        \/ \E ok \in BOOLEAN : PrepareStandbyRoomCreate(c, t, ok)
        \/ PrepareStandbyRoomSet(c, t)

\* the storage and the chat server answer: a prepareStandbyRoom call that can take
\* a step takes it
SpecStandby == InitStarted /\ [][NextStandby]_vars /\ WF_vars(PrepareStandbyRoomStep)

\* the standby rooms the calls of c have consumed
Consumed(c) == {opCalls[c][i].standby : i \in 1..Len(opCalls[c])} \ {NoRoom}

\* a prepareStandbyRoom call has ended
Ended(task) == task.pc \in {"returned", "failed", "stored"}

\* C15: when a wallet resolves a room for a recipient that has neither a binding
\* nor a joined room, with a standby room S stored, the room returned is S, the
\* recipient is invited to S, S is removed from the standby-room key and a
\* replacement is scheduled; the replacement ends, and when it ends without a
\* failure the standby-room key holds a room id that is not S (nor any other room
\* that was consumed).
C15_StandbyRoomConsumed ==
    /\ [][\A c \in Instances : \A i \in 1..Len(opCalls[c]) :
            LET call == opCalls[c][i]
            IN  /\ call.pc = "getAndRemoveStandbyRoom" /\ opCalls'[c][i].pc # call.pc
                         /\ standbyRoom[c] # NoRoom
                      => /\ isWallet(c)
                         /\ RelevantRooms(c, call.recipient) = <<>>
                         /\ call.roomIds[call.recipient] = NoRoom
                         /\ opCalls'[c][i].standby = standbyRoom[c]
                /\ call.pc = "removeStandbyRoom" /\ opCalls'[c][i].pc # call.pc
                      => /\ standbyRoom'[c] = NoRoom
                         /\ Len(standbyTasks'[c]) = Len(standbyTasks[c]) + 1
                         /\ standbyTasks'[c][Len(standbyTasks'[c])].pc = "get"
                /\ call.pc = "inviteToRooms" /\ opCalls'[c][i].pc # call.pc
                      => /\ opCalls'[c][i].roomId = call.standby
                         /\ \E j \in 1..Len(joinedRooms'[c]) :
                               /\ joinedRooms'[c][j].id = call.standby
                               /\ call.recipient \in joinedRooms'[c][j].invited
                /\ call.pc = "setRoomIds" /\ call.roomId = call.standby
                         /\ opCalls'[c][i].pc # call.pc
                      => /\ opCalls'[c][i].returned = Append(call.returned, call.standby)
                         /\ peerRoomIds'[c][call.recipient] = call.standby]_vars
    /\ [][\A c \in Instances : \A t \in 1..Len(standbyTasks[c]) :
            ~Ended(standbyTasks[c][t]) /\ standbyTasks'[c][t].pc \in {"returned", "stored"}
               => standbyRoom'[c] \notin ({NoRoom} \cup Consumed(c))]_vars
    /\ \A c \in Instances : \A t \in 1..MaxTasks :
          (t <= Len(standbyTasks[c]))
             ~> (t <= Len(standbyTasks[c]) /\ Ended(standbyTasks[c][t]))

\* a standby room has been consumed for a recipient and its replacement is stored
C15_Witness ==
    \E c \in Instances : \E i \in 1..Len(opCalls[c]) :
        /\ opCalls[c][i].standby = StandbyRoom
        /\ opCalls[c][i].returned = <<StandbyRoom>>
        /\ standbyRoom[c] \notin {NoRoom, StandbyRoom}
        /\ \E t \in 1..Len(standbyTasks[c]) : standbyTasks[c][t].pc = "stored"

(***************************************************************************)
(* Listening for encrypted messages                                        *)
(***************************************************************************)
\* the message events received: an encrypted text from each sender
ListenEvents ==
    {Event("text", s, "no", crypto_secretbox_NONCEBYTES + crypto_secretbox_MACBYTES, s,
           Plaintext(FALSE, "none")) : s \in Senders}

\* the time that passes between two steps: just under five minutes
TickInputs == {FiveMinutes - 1}

\* one client is started; messages arrive and listeners are registered and removed
\* at any moment from the creation of the chat client on
NextListen ==
    \/ \E c \in Instances : Solo(c) /\ Start(c)
    \/ \E c \in Instances : Solo(c) /\ StartCreateClient(c)
    \/ \E c \in Instances : Solo(c) /\ StartLogin(c, TRUE)
    \/ \E c \in Instances, joinOk \in BOOLEAN : Solo(c) /\ StartJoinRooms(c, joinOk)
    \/ \E c \in Instances, e \in ListenEvents : MessageArrives(c, e)
    \/ \E d \in TickInputs : Tick(d)
    \/ \E c \in Instances, s \in Senders :
          Solo(c) /\ client[c] # NoClient /\ ListenForEncryptedMessage(c, s)
    \/ \E c \in Instances, k \in 1..MaxCalls : InstallListener(c, k)
    \/ \E c \in Instances, k \in 1..MaxCalls : FinishListening(c, k)
    \/ \E c \in Instances, s \in Senders :
          Solo(c) /\ client[c] # NoClient /\ UnsubscribeFromEncryptedMessage(c, s)

SpecListen == InitIdle /\ [][NextListen]_vars

\* the listeners for the sender that are subscribed on the chat client of c
ListenersFor(c, s) ==
    {j \in 1..Len(messageListeners[c]) :
        messageListeners[c][j].kind = "encrypted" /\ messageListeners[c][j].sender = s}

\* C16 (as stated): whatever calls of listenForEncryptedMessage have been made, at
\* most one message listener for a sender is subscribed on the chat client, and it
\* is the one recorded in activeListeners for that sender.
C16_OneListenerPerSender ==
    \A c \in Instances : \A s \in Senders :
        /\ Cardinality(ListenersFor(c, s)) <= 1
        /\ \A j \in ListenersFor(c, s) : messageListeners[c][j].call = activeListeners[c][s]

\* the calls of the callback given to the k-th listenForEncryptedMessage call that
\* passed the event of that id
DeliveriesOf(c, k, id) ==
    {d \in 1..Len(delivered[c]) :
        /\ delivered[c][d].kind = "encrypted"
        /\ delivered[c][d].call = k
        /\ delivered[c][d].event = id}

\* the listenForEncryptedMessage calls of c that have ended
Registered(c) == {k \in 1..Len(listening[c]) : listening[c][k].pc = "done"}

\* C17 (as stated): an encrypted text from a sender that arrived while the initial
\* listener was subscribed and before listenForEncryptedMessage was called for
\* that sender, the listener being installed less than five minutes after the
\* message, has been passed exactly once to the callback of that call when the
\* call ends; and then the initial listener is unsubscribed and no event is
\* remembered.
C17_EarlyMessagesReplayed ==
    \A c \in Instances : \A k \in Registered(c) :
        /\ \A j \in 1..listening[c][k].seen :
              LET event == arrived[c][j]
              IN  /\ event.initial
                  /\ callbackFunction(event, listening[c][k].sender)
                  /\ listening[c][k].at - event.timestamp < FiveMinutes
                  => Cardinality(DeliveriesOf(c, k, event.id)) = 1
        /\ ~initialListener[c]
        /\ initialEvent[c] = NoEvent
        /\ ~InitialListenerSubscribed(c)

\* C17 (amended): the event the initial listener remembers when a
\* listenForEncryptedMessage call installs its listener, if it is an encrypted text
\* from the sender of that call and less than five minutes old, is passed to the
\* callback of the call at that moment, and no event is passed twice to a callback;
\* when the call has ended the initial listener is unsubscribed and no event is
\* remembered.
C17_RememberedEventReplayed ==
    /\ [][\A c \in Instances : \A k \in 1..Len(listening[c]) :
            LET call == listening[c][k]
                event == initialEvent[c]
            IN  /\ call.pc = "createCryptoBoxServer"
                /\ listening'[c][k].pc # call.pc
                /\ event # NoEvent
                /\ callbackFunction(event, call.sender)
                /\ now - event.timestamp < FiveMinutes
                => /\ DeliveriesOf(c, k, event.id) = {}
                   /\ delivered'[c] =
                         Append(delivered[c],
                                Delivery(Listener("encrypted", call.sender, k), event))]_vars
    /\ [](\A c \in Instances :
            /\ \A k \in 1..Len(listening[c]) : \A j \in 1..Len(arrived[c]) :
                  Cardinality(DeliveriesOf(c, k, j)) <= 1
            /\ Registered(c) # {}
                  => /\ ~initialListener[c]
                     /\ initialEvent[c] = NoEvent
                     /\ ~InitialListenerSubscribed(c))

\* a call has ended whose callback was passed an event received before the call
C17_Witness ==
    \E c \in Instances : \E k \in Registered(c) : \E j \in 1..listening[c][k].seen :
        /\ arrived[c][j].initial
        /\ Cardinality(DeliveriesOf(c, k, j)) = 1

(***************************************************************************)
(* Listening for channel openings                                          *)
(***************************************************************************)
\* the length a payload must have
MinPayload == crypto_secretbox_NONCEBYTES + crypto_secretbox_MACBYTES

\* a pairing response sealed to the local key pair, sent by P and holding the public
\* key of Q
SealedResponse == Event("text", "P", "me", MinPayload, "sealed", Plaintext(TRUE, "Q"))

\* the message events received: the sealed response and the events that differ
\* from it in one respect
ChannelEvents ==
    {SealedResponse,
     [SealedResponse EXCEPT !.type = "other"],
     [SealedResponse EXCEPT !.channelOpen = "other"],
     [SealedResponse EXCEPT !.channelOpen = "no"],
     [SealedResponse EXCEPT !.bytes = MinPayload - 1],
     [SealedResponse EXCEPT !.key = "none"],
     [SealedResponse EXCEPT !.key = "P"],
     [SealedResponse EXCEPT !.plaintext = Plaintext(FALSE, "none")]}

\* one client is started and listens for channel openings while messages arrive
NextChannel ==
    \/ \E c \in Instances : Solo(c) /\ Start(c)
    \/ \E c \in Instances : Solo(c) /\ StartCreateClient(c)
    \/ \E c \in Instances, loginOk \in BOOLEAN : Solo(c) /\ StartLogin(c, loginOk)
    \/ \E c \in Instances, joinOk \in BOOLEAN : Solo(c) /\ StartJoinRooms(c, joinOk)
    \/ \E c \in Instances : Solo(c) /\ client[c] # NoClient /\ ListenForChannelOpening(c)
    \/ \E c \in Instances, e \in ChannelEvents : MessageArrives(c, e)

SpecChannel == InitIdle /\ [][NextChannel]_vars

\* whether the listener of listenForChannelOpening is subscribed on c
ChannelListenerSubscribed(c) ==
    \E j \in 1..Len(messageListeners[c]) : messageListeners[c][j].kind = "channel"

\* the calls of the listenForChannelOpening callback for the event of that id
ChannelDeliveriesOf(c, id) ==
    {d \in 1..Len(delivered[c]) :
        delivered[c][d].kind = "channel" /\ delivered[c][d].event = id}

\* C18: the callback of listenForChannelOpening is called for an event only if the
\* event is a text, its content starts with '@channel-open:@' and the hash of the
\* local public key, its last segment decodes to at least 40 bytes and opens as a
\* box sealed to the local key pair; it is then passed the decoded response with
\* the senderId of the public key the response holds; and such a response that
\* arrives while the listener is subscribed is passed to the callback.
C18_ChannelOpenAuthenticated ==
    /\ [](\A c \in Instances : \A d \in 1..Len(delivered[c]) :
            delivered[c][d].kind = "channel"
               => LET event == arrived[c][delivered[c][d].event]
                  IN  /\ event.type = "text"
                      /\ event.channelOpen = "me"
                      /\ event.bytes >= 40
                      /\ event.key = "sealed"
                      /\ delivered[c][d].plaintext = event.plaintext
                      /\ delivered[c][d].senderId = getSenderId(event.plaintext.publicKey))
    /\ [][\A c \in Instances :
            /\ Len(arrived'[c]) > Len(arrived[c])
            /\ ChannelListenerSubscribed(c)
            /\ [id |-> Len(arrived'[c]), timestamp |-> now,
                initial |-> InitialListenerSubscribed(c)] @@ SealedResponse
                  = arrived'[c][Len(arrived'[c])]
            => \E d \in 1..Len(delivered'[c]) :
                  /\ delivered'[c][d].kind = "channel"
                  /\ delivered'[c][d].event = Len(arrived'[c])]_vars

\* with the listener subscribed, a sealed response has been passed to the callback
\* and a channel-open text that does not open has arrived and has not
C18_Witness ==
    \E c \in Instances : \E i, j \in 1..Len(arrived[c]) :
        /\ ChannelListenerSubscribed(c)
        /\ ChannelDeliveriesOf(c, i) # {}
        /\ arrived[c][j].channelOpen = "me" /\ arrived[c][j].key # "sealed"
        /\ ChannelDeliveriesOf(c, j) = {}
        /\ delivered[c][1].event < j

\* C19 (as stated): when a sendMessage call for a recipient is made after the
\* promise of an earlier sendMessage call for that recipient has resolved, every
\* hand-over of the earlier message to the chat client, a retry after M_FORBIDDEN
\* included, comes before every hand-over of the later message.
C19_SendsInCallOrder ==
    \A c \in Instances : \A j \in SendMessageCalls(c) : \A i \in opCalls[c][j].after :
        opCalls[c][i].kind = "sendMessage" /\ opCalls[c][i].recipient = opCalls[c][j].recipient
           => \A x \in SendsOf(c, i) : \A y \in SendsOf(c, j) : x < y

\* the call has resolved a room once and its send has not been refused
Routed(call) ==
    /\ call.attempt = 1
    /\ Len(call.returned) = 1
    /\ call.pc \in {"sendTextMessage", "sending", "done"}
    /\ call.outcomes = <<>> \/ call.outcomes[1] # "M_FORBIDDEN"

\* C20 (as stated): once every getRelevantRoom call made has completed (no send
\* having been refused), each recipient a call was made for is bound, in the stored
\* bindings, to the room that was returned to that call.
C20_BindingsNeverLost ==
    \A c \in Instances :
        (\A i \in 1..Len(opCalls[c]) : Routed(opCalls[c][i]))
           => \A i \in 1..Len(opCalls[c]) :
                 peerRoomIds[c][opCalls[c][i].recipient] = opCalls[c][i].returned[1]

(***************************************************************************)
(* The order of room resolution                                            *)
(***************************************************************************)
\* C21: a resolution that reads a binding for its recipient returns the bound room
\* in that step, with no operation on the chat client and no write to storage; it
\* scans the joined rooms only when it read no binding, asks for the standby room
\* only when the scan found no room with the recipient as a member, and comes to
\* createTrustedPrivateRoom(recipient) only when it read no binding, the scan found
\* no such room and there was no standby room; rooms are created for a recipient
\* at that place only.
C21_ResolutionPriority ==
    [][\A c \in Instances :
         /\ \A i \in 1..Len(opCalls[c]) :
              LET call == opCalls[c][i]
                  next == opCalls'[c][i]
                  r == call.recipient
              IN  /\ call.pc = "getRelevantRoom" /\ next.pc # call.pc /\ peerRoomIds[c][r] # NoRoom
                        => /\ next.returned = Append(call.returned, peerRoomIds[c][r])
                           /\ next.roomId = peerRoomIds[c][r]
                           /\ UNCHANGED <<chatOps, joinedRooms, nextRoom, peerRoomIds,
                                          standbyRoom, standbyTasks>>
                  /\ next.pc = "getRelevantJoinedRoom" /\ call.pc # next.pc
                        => call.pc = "getRelevantRoom" /\ peerRoomIds[c][r] = NoRoom
                  /\ next.pc = "getAndRemoveStandbyRoom" /\ call.pc # next.pc
                        => /\ call.pc = "getRelevantJoinedRoom"
                           /\ call.roomIds[r] = NoRoom
                           /\ RelevantRooms(c, r) = <<>>
                  /\ next.pc = "createTrustedPrivateRoom" /\ call.pc # next.pc
                        => /\ call.roomIds[r] = NoRoom
                           /\ standbyRoom[c] = NoRoom
                           /\ \/ call.pc = "getAndRemoveStandbyRoom"
                              \/ call.pc = "getRelevantJoinedRoom" /\ RelevantRooms(c, r) = <<>>
         /\ Len(joinedRooms'[c]) > Len(joinedRooms[c])
               => \E i \in 1..Len(opCalls[c]) :
                     /\ opCalls[c][i].pc = "createTrustedPrivateRoom"
                     /\ opCalls'[c][i].pc # "createTrustedPrivateRoom"
                     /\ joinedRooms'[c] = Append(joinedRooms[c],
                           NewRoom(opCalls'[c][i].roomId, {opCalls[c][i].recipient}))]_vars

\* one resolution has returned the bound room at once, another has reused a
\* joined room or taken the standby room, and a third room has been created
C21_Witness ==
    \E c \in Instances : \E i, j \in 1..Len(opCalls[c]) :
        /\ opCalls[c][i].cached /\ opCalls[c][i].returned[1] = StaleRoom
        /\ Len(opCalls[c][j].returned) >= 1
        /\ opCalls[c][j].returned[Len(opCalls[c][j].returned)] = NewRoomId(1)
        /\ peerRoomIds[c][opCalls[c][j].recipient] = NewRoomId(1)

(***************************************************************************)
(* tryJoinRooms                                                            *)
(***************************************************************************)
\* the rooms invitations name
InvitedRoomInputs == {StaleRoom, "room-y"}

\* a step of a running tryJoinRooms chain
JoinStep ==
    \E c \in Instances, i \in 1..MaxCalls :
        \/ \E o \in JoinOutcomes : JoinRoomsSettles(c, i, o)
        \/ JoinTimerFires(c, i)

\* invitations arrive at a started client, each after the chain of the one before
\* has ended, and tryJoinRooms is run for each
NextJoin ==
    \/ \E c \in Instances, roomId \in InvitedRoomInputs : Awaited(c) /\ TryJoinRooms(c, roomId)
    \/ \E c \in Instances, i \in 1..MaxCalls, o \in JoinOutcomes : JoinRoomsSettles(c, i, o)
    \/ \E c \in Instances, i \in 1..MaxCalls : JoinTimerFires(c, i)

\* the chat server answers every join and every timer fires
SpecJoin == InitStarted /\ [][NextJoin]_vars /\ WF_vars(JoinStep)

\* the tryJoinRooms chains started on instance c
TryJoinRoomsCalls(c) == {i \in 1..Len(opCalls[c]) : opCalls[c][i].kind = "tryJoinRooms"}

\* C22: a tryJoinRooms chain makes a further attempt only after an attempt that
\* failed with M_FORBIDDEN, through a timer of 200 ms set at that failure; it makes
\* at most 10 further attempts; an attempt that succeeds or fails otherwise ends
\* the chain; and every chain ends.
C22_JoinRetriesBounded ==
    /\ [](\A c \in Instances : \A i \in TryJoinRoomsCalls(c) :
            LET call == opCalls[c][i]
            IN  /\ call.retry - 1 <= MaxJoinRoomsRetry
                /\ call.waited = JoinRetryDelay * (call.retry - 1 + (IF call.pc = "joinTimer" THEN 1 ELSE 0))
                /\ Len(call.outcomes) = (IF call.pc = "joinRooms" THEN call.retry - 1 ELSE call.retry)
                /\ \A k \in 1..Len(call.outcomes) :
                      k < call.retry \/ call.pc = "joinTimer" => call.outcomes[k] = "M_FORBIDDEN"
                /\ call.pc \in {"joinRooms", "joinTimer", "done"})
    /\ [][\A c \in Instances : \A i \in TryJoinRoomsCalls(c) :
            LET call == opCalls[c][i]
                next == opCalls'[c][i]
            IN  /\ call.pc = "joinRooms" /\ next.pc # call.pc
                         /\ next.outcomes[Len(next.outcomes)] # "M_FORBIDDEN"
                      => next.pc = "done" /\ next.waited = call.waited /\ chatOps' = chatOps
                /\ call.pc = "joinRooms" /\ next.pc = "joinTimer"
                      => next.waited = call.waited + JoinRetryDelay /\ chatOps' = chatOps
                /\ call.pc = "done" => next = call]_vars
    /\ \A c \in Instances : \A i \in 1..MaxCalls :
          (i <= Len(opCalls[c])) ~> (i <= Len(opCalls[c]) /\ opCalls[c][i].pc = "done")

\* one chain has ended after ten retries that all failed with M_FORBIDDEN, and
\* another with an error of another kind at its first attempt
C22_Witness ==
    \E c \in Instances : \E i, j \in TryJoinRoomsCalls(c) :
        /\ opCalls[c][i].pc = "done" /\ opCalls[c][i].retry = MaxJoinRoomsRetry + 1
        /\ opCalls[c][i].outcomes[MaxJoinRoomsRetry + 1] = "M_FORBIDDEN"
        /\ opCalls[c][j].pc = "done" /\ opCalls[c][j].outcomes = <<"M_UNKNOWN">>

(***************************************************************************)
(* The bound of waitForJoin                                                *)
(***************************************************************************)
\* C23 (as stated): a waitForJoin that fails because the room never had two
\* members has made 200 checks of getRoomById.
C23_GivesUpAfter200Polls ==
    \A c \in Instances : \A i \in 1..Len(opCalls[c]) :
        opCalls[c][i].promise = "rejected" => opCalls[c][i].polls = MaxJoinRetry

\* C24 (as stated): when sendPairingResponse fails because nobody joined, the
\* delays of the timers waitForJoin has set sum to about 30 seconds (here: to
\* between 25 and 35 seconds).
C24_FailsAfterThirtySeconds ==
    \A c \in Instances : \A i \in PairingResponseCalls(c) :
        opCalls[c][i].promise = "rejected"
           => 25 * 1000 <= opCalls[c][i].waited /\ opCalls[c][i].waited <= 35 * 1000

\* C24 (amended): when sendPairingResponse fails because nobody joined, waitForJoin
\* has set 51 timers of 100 ms and 150 timers of 1 s, 155,100 ms in all; while it
\* waits the sum is that of the timers set so far.
C24_FailsAfter155Seconds ==
    \A c \in Instances : \A i \in PairingResponseCalls(c) :
        LET call == opCalls[c][i]
        IN  /\ call.promise = "rejected" => call.waited = 51 * 100 + 150 * 1000
            /\ call.pc = "waitForJoin"
                  => call.waited = IF call.retry <= 51 THEN 100 * call.retry
                                   ELSE 51 * 100 + 1000 * (call.retry - 51)

\* a sendPairingResponse has failed because nobody joined
C24_Witness ==
    \E c \in Instances : \E i \in PairingResponseCalls(c) :
        /\ opCalls[c][i].promise = "rejected"
        /\ opCalls[c][i].retry = MaxJoinRetry + 1
        /\ Cardinality(MembersOf(c, opCalls[c][i].roomId)) < 2

(***************************************************************************)
(* The order of start()                                                    *)
(***************************************************************************)
\* a client is started; from the moment client.start is invoked its sync delivers
\* message and invite events, and the joins the invites start proceed
NextStart ==
    \/ \E c \in Instances : Solo(c) /\ Start(c)
    \/ \E c \in Instances : Solo(c) /\ StartCreateClient(c)
    \/ \E c \in Instances, loginOk \in BOOLEAN : Solo(c) /\ StartLogin(c, loginOk)
    \/ \E c \in Instances, joinOk \in BOOLEAN : Solo(c) /\ StartJoinRooms(c, joinOk)
    \/ \E c \in Instances, e \in ListenEvents : MessageArrives(c, e)
    \/ \E c \in Instances, roomId \in InvitedRoomInputs : Awaited(c) /\ InviteArrives(c, roomId)
    \/ \E c \in Instances, i \in 1..MaxCalls, o \in JoinOutcomes : JoinRoomsSettles(c, i, o)
    \/ \E c \in Instances, i \in 1..MaxCalls : JoinTimerFires(c, i)

SpecStart == InitIdle /\ [][NextStart]_vars

\* the join of the rooms the client was invited to when it logged in
JoinInvitedRooms == ChatOp("joinRooms", NoRoom, "invited")

\* whether the log holds the entry
Logged(log, entry) == \E k \in 1..Len(log) : log[k] = entry

\* C25: start() subscribes the initial-message listener and the invite listener on
\* the chat client before it invokes client.start, so that every message event and
\* every invite event of the sync reaches them (the latest message is remembered,
\* every invite starts a tryJoinRooms); the invited rooms are joined, and after
\* that the standby room is prepared, only once client.start has settled.
C25_ListenersBeforeLogin ==
    /\ [](\A c \in Instances :
            /\ Logged(chatOps[c], ChatOp("start", NoRoom, "login"))
                  => /\ SubscribedBeforeStart(c, "message")
                     /\ SubscribedBeforeStart(c, "invite")
                     /\ InitialListenerSubscribed(c)
            /\ \A k \in 1..Len(arrived[c]) : arrived[c][k].initial
            /\ arrived[c] # <<>> => Logged(chatOps[c], ChatOp("start", NoRoom, "login"))
            /\ (\E k \in 1..Len(arrived[c]) : arrived[c][k].type = "text")
                  => initialEvent[c] # NoEvent
            /\ Cardinality({k \in 1..Len(arrived[c]) : arrived[c][k].type = "invite"})
                  = Cardinality(TryJoinRoomsCalls(c))
            /\ Logged(chatOps[c], JoinInvitedRooms) => startPc[c] \in {"joining", "done"}
            /\ standbyTasks[c] # <<>> => startPc[c] = "done")
    /\ [][\A c \in Instances :
            /\ ~Logged(chatOps[c], JoinInvitedRooms) /\ Logged(chatOps'[c], JoinInvitedRooms)
                  => startPc[c] = "login" /\ startPc'[c] = "joining"
            /\ standbyTasks[c] = <<>> /\ standbyTasks'[c] # <<>>
                  => startPc[c] = "joining" /\ startPc'[c] = "done"]_vars

\* start() has resolved on a wallet; a message and an invite of its sync arrived
\* while the login was pending, and both reached their listeners
C25_Witness ==
    \E c \in Instances :
        /\ startPc[c] = "done"
        /\ standbyTasks[c] # <<>>
        /\ Len(arrived[c]) = 2
        /\ arrived[c][1].type = "text" /\ arrived[c][2].type = "invite"
        /\ initialEvent[c] # NoEvent /\ initialEvent[c].id = 1
        /\ TryJoinRoomsCalls(c) # {}
        /\ \E k, l \in 1..Len(chatOps[c]) :
              /\ k < l
              /\ chatOps[c][k] = ChatOp("joinRooms", arrived[c][2].roomId, "1")
              /\ chatOps[c][l] = JoinInvitedRooms

(***************************************************************************)
(* The encrypted-message listener                                          *)
(***************************************************************************)
\* a message encrypted by P with the key it shares with the client
EncryptedText == Event("text", "P", "no", MinPayload, "P", Plaintext(FALSE, "none"))

\* the message events received: the encrypted text and the events that differ from
\* it in one respect
EncryptedEvents ==
    {EncryptedText,
     [EncryptedText EXCEPT !.type = "other"],
     [EncryptedText EXCEPT !.sender = "Q"],
     [EncryptedText EXCEPT !.channelOpen = "me"],
     [EncryptedText EXCEPT !.bytes = MinPayload - 1],
     [EncryptedText EXCEPT !.key = "none"],
     [EncryptedText EXCEPT !.key = "Q"]}

\* a started client listens for the messages of its peers while messages arrive
NextDecrypt ==
    \/ \E c \in Instances, s \in Senders : ListenForEncryptedMessage(c, s)
    \/ \E c \in Instances, k \in 1..MaxCalls : InstallListener(c, k)
    \/ \E c \in Instances, k \in 1..MaxCalls : FinishListening(c, k)
    \/ \E c \in Instances, e \in EncryptedEvents : MessageArrives(c, e)

SpecDecrypt == InitStarted /\ [][NextDecrypt]_vars

\* the calls of the callback given for sender s, for the event of that id
EncryptedDeliveriesOf(c, s, id) ==
    {d \in 1..Len(delivered[c]) :
        /\ delivered[c][d].kind = "encrypted"
        /\ delivered[c][d].sender = s
        /\ delivered[c][d].event = id}

\* C26: the callback given to listenForEncryptedMessage for sender P is called for
\* an event only if the event is a text, its sender address starts with '@' and the
\* hash of P, its content decodes from hex to at least 24 + 16 bytes and the
\* payload decrypts with the key shared with P; it is then passed the decrypted
\* message; for every other event that reaches the listener, a payload that does
\* not decrypt included, the callback is not called.
C26_OnlyDecryptedMessagesOfTheSender ==
    /\ [](\A c \in Instances : \A d \in 1..Len(delivered[c]) :
            delivered[c][d].kind = "encrypted"
               => LET event == arrived[c][delivered[c][d].event]
                  IN  /\ event.type = "text"
                      /\ event.sender = delivered[c][d].sender
                      /\ event.channelOpen = "no"
                      /\ event.bytes >= 24 + 16
                      /\ event.key = delivered[c][d].sender
                      /\ delivered[c][d].plaintext = event.plaintext)
    /\ [][\A c \in Instances :
            Len(arrived'[c]) > Len(arrived[c])
               => LET event == arrived'[c][Len(arrived'[c])]
                  IN  \/ /\ event.type = "text" /\ event.channelOpen = "no"
                         /\ event.bytes >= 24 + 16 /\ event.key = event.sender
                      \/ delivered'[c] = delivered[c]]_vars

\* with the listener for P subscribed, a message of P has been passed to the
\* callback and a later one, which does not decrypt, has not
C26_Witness ==
    \E c \in Instances : \E i, j \in 1..Len(arrived[c]) :
        /\ ListenersFor(c, "P") # {}
        /\ i < j
        /\ EncryptedDeliveriesOf(c, "P", i) # {}
        /\ arrived[c][j].sender = "P" /\ arrived[c][j].key = "none"
        /\ arrived[c][j].bytes >= 24 + 16
        /\ EncryptedDeliveriesOf(c, "P", j) = {}

(***************************************************************************)
(* The store's scalar fields and values that JavaScript takes to be false  *)
(***************************************************************************)
\* updates that carry, for a scalar field, a value that is false for JavaScript
\* or one that is not
FalsyUpdateInputs ==
    {Partial("isRunning" :> TRUE), Partial("isRunning" :> FALSE),
     Partial("pollingRetries" :> 2), Partial("pollingRetries" :> 0),
     Partial("txnNo" :> 1), Partial("txnNo" :> 0),
     Partial("userId" :> "u"), Partial("userId" :> ""),
     Partial(("isRunning" :> FALSE) @@ ("txnNo" :> 0) @@ ("pollingRetries" :> 0)
             @@ ("accessToken" :> "") @@ ("syncToken" :> "") @@ ("deviceId" :> "")
             @@ ("pollingTimeout" :> 0)),
     Partial(<<>>)}

\* updates of one store, from its creation on
NextFalsy ==
    \/ \E u \in FalsyUpdateInputs : Update(u)
    \/ Apply
    \/ Reject
    \/ Hydrate
    \/ HydrateFail

SpecFalsy == InitStoreOnly /\ [][NextFalsy]_vars

\* C27: no step of a store takes a scalar field from a value that is true for
\* JavaScript to one that is false; an update that carries false, 0, '' or nothing
\* for a scalar field leaves the field as it was. So isRunning, once true, stays
\* true, and txnNo and pollingRetries, once not 0, are never 0 again.
C27_ScalarsNeverBecomeFalsy ==
    [][\A i \in 1..Len(ScalarKeys) :
         LET key == ScalarKeys[i]
         IN  /\ Truthy(key, state[key]) => Truthy(key, state'[key])
             /\ UpdateRan /\ ~Truthy(key, last'.update[key]) => state'[key] = state[key]]_vars

\* an update carrying isRunning: false, txnNo: 0 and pollingRetries: 0 has run on
\* a store in which isRunning was true, and isRunning is true still
C27_Witness ==
    /\ last # NoLast
    /\ last.update.isRunning = Given(FALSE)
    /\ last.update.txnNo = Given(0)
    /\ last.oldState.isRunning = Given(TRUE)
    /\ state.isRunning = Given(TRUE)

(***************************************************************************)
(* Concurrent consumption of the standby room                              *)
(***************************************************************************)
\* getAndRemoveStandbyRoom has returned a standby room to the call
TookStandby(call) ==
    /\ call.standby # NoRoom
    /\ call.pc \notin {"getAndRemoveStandbyRoom", "removeStandbyRoom"}

\* C28 (as stated): on a wallet, the standby room that getAndRemoveStandbyRoom has
\* returned to the resolution for one recipient is not returned to the resolution
\* for another recipient, however the resolutions interleave.
C28_StandbyRoomForOneRecipient ==
    \A c \in Instances : \A i, j \in 1..Len(opCalls[c]) :
        /\ TookStandby(opCalls[c][i])
        /\ TookStandby(opCalls[c][j])
        /\ opCalls[c][i].recipient # opCalls[c][j].recipient
        => opCalls[c][j].standby # opCalls[c][i].standby

(***************************************************************************)
(* Failures of the chat client during start()                              *)
(***************************************************************************)
\* a client is started while the login, the join of the invited rooms and the
\* creation of the standby room succeed or fail; operations are invoked on it at
\* any moment
NextFailures ==
    \/ \E c \in Instances : Solo(c) /\ Start(c)
    \/ \E c \in Instances : Solo(c) /\ StartCreateClient(c)
    \/ \E c \in Instances, loginOk \in BOOLEAN : Solo(c) /\ StartLogin(c, loginOk)
    \/ \E c \in Instances, joinOk \in BOOLEAN : Solo(c) /\ StartJoinRooms(c, joinOk)
    \/ \E c \in Instances, t \in 1..MaxTasks : PrepareStandbyRoomGet(c, t)
    \/ \E c \in Instances, t \in 1..MaxTasks, ok \in BOOLEAN : PrepareStandbyRoomCreate(c, t, ok)
    \/ \E c \in Instances, t \in 1..MaxTasks : PrepareStandbyRoomSet(c, t)
    \/ \E c \in Instances : Solo(c) /\ ListenForChannelOpening(c)
    \/ \E c \in Instances, roomId \in RoomInputs : Solo(c) /\ WaitForJoinCall(c, roomId)
    \/ \E c \in Instances : Solo(c) /\ UnsubscribeFromEncryptedMessages(c)

SpecFailures == InitIdle /\ [][NextFailures]_vars

\* C29: start() does not reject when client.start, the join of the invited rooms
\* or the creation of the standby room fails: after each of them, failed or not,
\* start() goes on and resolves, this.client stays set, and an operation invoked
\* after start() has resolved finds a client, logged in or not.
C29_StartSurvivesChatFailures ==
    /\ [](\A c \in Instances :
            /\ startPc[c] \in {"idle", "sodium", "login", "joining", "done"}
            /\ startPc[c] \in {"login", "joining", "done"} => client[c] # NoClient
            /\ \A t \in 1..Len(standbyTasks[c]) : startPc[c] = "done")
    /\ [][/\ \A c \in Instances :
               /\ startPc[c] = "login" /\ startPc'[c] # "login" => startPc'[c] = "joining"
               /\ startPc[c] = "joining" /\ startPc'[c] # "joining" => startPc'[c] = "done"
               /\ startPc[c] = "done" => startPc'[c] = "done"
               /\ client[c] # NoClient => client'[c] # NoClient
          /\ lastOp' # lastOp /\ lastOp'.during = "done"
                => lastOp'.result = "accepted"]_vars

\* start() has resolved on a wallet whose login failed and whose standby room
\* could not be created, and an operation invoked after that found a client
C29_Witness ==
    \E c \in Instances :
        /\ startPc[c] = "done"
        /\ ~client[c].loggedIn
        /\ \E t \in 1..Len(standbyTasks[c]) : standbyTasks[c][t].pc = "failed"
        /\ lastOp # NoOp /\ lastOp.instance = c
        /\ lastOp.during = "done" /\ lastOp.result = "accepted"

====
